---- MODULE Spec2Model ----
(***************************************************************************)
(* Verification model of the two-sublattice exchange energy module         *)
(* (YY_2LatExchange6Ngbr): the lazy, thread-safe region-map rebuild in     *)
(* ComputeEnergyChunk, the construction of the three coefficient matrices, *)
(* the six-neighbour kernel CalcEnergyA and the evaluation's Initialize    *)
(* and Finalize, the kernel dispatch and the equilibrium solver; of the    *)
(* step control, the derivative Calculate_dm_dt and Init of                *)
(* YY_LLBEulerEvolve; and of the problem status of YY_2LatDriver.          *)
(***************************************************************************)
EXTENDS Integers, Sequences, FiniteSets, TLC

(***************************************************************************)
(* Bounds of the model.                                                    *)
(***************************************************************************)
NThreads == 3
MaxRegions == 2

Threads == 0 .. (NThreads - 1)
MeshIds == {1, 2}
NoThread == -1
Garbage == -9

VARIABLES
  \* --- members of YY_2LatExchange6Ngbr used by ComputeEnergyChunk;
  \* --- atlaskey is TRUE while the state id the key recorded is the
  \* --- atlas's present state id, which is what SameState() reports
  mesh_id, atlaskey, region_id,
  \* --- the atlas and the state handed to the evaluation
  atlas, state_mesh,
  \* --- Oxs_ThreadError and thread_control
  thread_error, mutex, count, signalled,
  \* --- per thread: position, local condcheckerror; fill loop index
  pc, condcheckerror, fill_i,
  \* --- probes of one evaluation
  rebuilds, writers, ran, failed, map_for, eval_stale,
  \* --- the constructor: position, members it sets, the heap, its inputs
  ctor_pc, coef_size, excoeftype, coef, coef_ptr, heap,
  nparams, default_coef, chan, ip,
  \* --- probes of the construction
  named, bad_config,
  \* --- one call of CalcEnergyA: position, the state and the range it is
  \* --- given, the output buffers, its locals, and the members it updates
  k_pc, lattice_type, mesh, spin, Ms_inverse, ocedt, node_start, node_stop,
  threadnumber, energy, H, mxH, energy_accum, H_accum, mxH_accum,
  cell_i, cell_x, cell_y, cell_z, xstop, energy_sum, thread_maxdot,
  maxdot, energy_total_accum,
  \* --- probes: the neighbour terms added to each cell's sum, and the
  \* --- neighbour lookups each cell made
  contrib, lookups,
  \* --- one energy evaluation: ComputeEnergyChunkInitialize, the chunks,
  \* --- ComputeEnergyChunkFinalize; the states' stage numbers and derived
  \* --- data, the states the director still holds, the member
  \* --- last_stage_number, the states whose m_e/chi_l/Tc pointers are set
  e_pc, e_state, stage_number, derived, existing, last_stage_number, m_e_set,
  \* --- whether the per-cell arrays J1, J2, mu1, mu2, Tc1, Tc2, m_e1, m_e2,
  \* --- chi_l1, chi_l2 are filled and sized to the mesh (not released)
  params_sized,
  \* --- probes: Update_m_e_chi_l runs in the Initialize call of the
  \* --- evaluation under way, and whether the latest Finalize threw
  update_runs, e_error,
  \* --- YY_LLBEulerEvolve: its configuration, its members (next_timestep,
  \* --- energy_state_id, the output cache ids, iteration_Tcalculated), the
  \* --- driver's current state, its count of Step calls in the Run under
  \* --- way and of attempts since the last good step
  ev_cfg, ev, cstate, step_calls, current_attempt_count,
  \* --- probes: what the latest Step attempt saw and did, and how often
  \* --- the thermal fields were generated for each iteration number
  att, draws,
  \* --- YY_2LatDriver: its limits, the member problem_status, the pair of
  \* --- current states, one call of Run with its locals step_events and
  \* --- step_calls, whether a call ended with an exception
  d_cfg, problem_status, dstate, d_pc, step_events, d_step_calls, d_error,
  \* --- probe: what the latest pass of the loop in Run did
  d_last,
  \* --- YY_LLBEulerEvolve::Calculate_dm_dt: the members it keeps (mesh_id,
  \* --- the sizes and values of the per-cell arrays, iteration_Tcalculated),
  \* --- the problem being run (its mesh, the iteration count of its current
  \* --- state, the evolver's options), and what the latest call returned
  tm, prob, dout,
  \* --- one run of the equilibrium solver (Calculate_m_e, and the loop body
  \* --- of Update_m_e_chi_l for one cell of one sublattice)
  sol

cacheVars == << mesh_id, atlaskey, region_id >>
envVars == << atlas, state_mesh >>
syncVars  == << thread_error, mutex, count, signalled >>
localVars == << pc, condcheckerror, fill_i >>
probeVars == << rebuilds, writers, ran, failed, map_for, eval_stale >>
chunkVars == << cacheVars, envVars, syncVars, localVars, probeVars >>

ctorVars == << ctor_pc, coef_size, excoeftype, coef, coef_ptr, heap, nparams,
              default_coef, chan, ip, named, bad_config >>

kernelInputs == << lattice_type, mesh, spin, Ms_inverse, ocedt, node_start,
                   node_stop, threadnumber >>
kernelOutputs == << energy, H, mxH, energy_accum, H_accum, mxH_accum >>
kernelLocals == << cell_i, cell_x, cell_y, cell_z, xstop, energy_sum,
                   thread_maxdot >>
kernelProbes == << contrib, lookups >>
kernelVars == << k_pc, kernelInputs, kernelOutputs, kernelLocals, maxdot,
                 energy_total_accum, kernelProbes >>

kernelButMaxdot == << k_pc, kernelInputs, kernelOutputs, kernelLocals,
                      energy_total_accum, kernelProbes >>

evalVars == << e_pc, e_state, stage_number, derived, existing,
               last_stage_number, m_e_set, params_sized, update_runs,
               e_error >>

stepVars == << ev_cfg, ev, cstate, step_calls, current_attempt_count, att,
               draws >>

driverVars == << d_cfg, problem_status, dstate, d_pc, step_events,
                 d_step_calls, d_error, d_last >>

calcVars == << tm, prob, dout, sol >>

restVars == << evalVars, stepVars, driverVars, calcVars >>

vars == << chunkVars, ctorVars, kernelVars, restVars >>

\* what the steps of one part leave alone: the variables of the other parts
notChunk == << ctorVars, kernelVars, restVars >>
notCtor == << chunkVars, kernelVars, restVars >>
notKernel == << chunkVars, ctorVars, restVars >>
notEval == << chunkVars, ctorVars, kernelButMaxdot, stepVars, driverVars,
             calcVars >>
notStep == << chunkVars, ctorVars, kernelVars, evalVars, driverVars,
             calcVars >>
notDriver == << chunkVars, ctorVars, kernelVars, evalVars, stepVars,
               calcVars >>
notCalc == << chunkVars, ctorVars, kernelVars, evalVars, stepVars,
             driverVars >>

(***************************************************************************)
(* The atlas: a region count and a map from cell centres to region ids.    *)
(* The centre of cell i of either mesh is location i; a mesh with id m has *)
(* m cells.                                                                *)
(***************************************************************************)
MeshSize(m) == m

\* atlases of 1 .. MaxRegions regions that cover every cell, and a
\* one-region atlas that leaves cell 1 outside every region
AtlasConfigs ==
  [count : 1 .. MaxRegions, hole : {FALSE}] \cup {[count |-> 1, hole |-> TRUE]}

GetRegionCount(a) == a.count

GetRegionIdAt(a, loc) == IF a.hole /\ loc = 1 THEN -1 ELSE loc % a.count

(***************************************************************************)
(* Conditions of ComputeEnergyChunk.                                       *)
(***************************************************************************)
MeshMismatch(mid, smesh) == mid # smesh

SameState_Never(key) == FALSE

SameState(key) == key

NeedRebuild(mid, smesh, key) ==
  MeshMismatch(mid, smesh) \/ ~SameState(key)

IsMainThread_AnyThread(t) == TRUE

IsMainThread(t) == t = 0

NotifyNeeded_Never(cnt) == FALSE

NotifyNeeded(cnt) == cnt > 0

SetError_Omitted == FALSE

SetError == TRUE

CondCheckError_Unchecked(mid, smesh, key) == FALSE

CondCheckError(mid, smesh, key) == NeedRebuild(mid, smesh, key)

Blocked == {u \in Threads : pc[u] = "wait" /\ ~signalled[u]}

\* thread_control.Notify(): wakes one thread blocked in Wait, if any
NotifyTargets(cnt, blocked) ==
  IF NotifyNeeded(cnt) /\ blocked # {} THEN blocked ELSE {NoThread}

Signal(w) == [u \in Threads |-> IF u = w THEN TRUE ELSE signalled[u]]

AllJoined == \A t \in Threads : pc[t] \in {"idle", "thrown"}

\* where a thread goes when a call returns: its next chunk, or the end of
\* its loop over the chunks
AfterReturn == {"chk", "idle"}

(***************************************************************************)
(* Initial state: the module has just been constructed.                    *)
(***************************************************************************)
ChunkVarsAre(mid, rid) ==
  /\ atlaskey = TRUE
  /\ mesh_id = mid
  /\ region_id = rid
  /\ state_mesh = mid
  /\ thread_error = FALSE
  /\ mutex = NoThread
  /\ count = 0
  /\ signalled = [t \in Threads |-> FALSE]
  /\ pc = [t \in Threads |-> "idle"]
  /\ condcheckerror = [t \in Threads |-> FALSE]
  /\ fill_i = 0
  /\ rebuilds = 0
  /\ writers = {}
  /\ ran = FALSE
  /\ failed = FALSE
  /\ map_for = << mid, mid # 0 >>
  /\ eval_stale = FALSE

InitChunkVars == ChunkVarsAre(0, << >>)

(***************************************************************************)
(* CalcEnergyA is not running.                                             *)
(***************************************************************************)
Zero3 == << 0, 0, 0 >>

KernelIdle ==
  /\ k_pc = "idle"
  /\ lattice_type = "LATTICE1"
  /\ mesh = [xdim |-> 1, ydim |-> 1, zdim |-> 1, xperiodic |-> FALSE,
             yperiodic |-> FALSE, zperiodic |-> FALSE]
  /\ spin = << >>
  /\ Ms_inverse = << >>
  /\ ocedt = [direct |-> FALSE, accum |-> FALSE]
  /\ node_start = 0
  /\ node_stop = 0
  /\ threadnumber = 0
  /\ energy = << >>
  /\ H = << >>
  /\ mxH = << >>
  /\ energy_accum = << >>
  /\ H_accum = << >>
  /\ mxH_accum = << >>
  /\ cell_i = 0
  /\ cell_x = 0
  /\ cell_y = 0
  /\ cell_z = 0
  /\ xstop = 0
  /\ energy_sum = 0
  /\ thread_maxdot = 0
  /\ maxdot = [t \in Threads |-> 0]
  /\ energy_total_accum = 0
  /\ contrib = << >>
  /\ lookups = << >>

(***************************************************************************)
(* One energy evaluation of a state: ComputeEnergyChunkInitialize, the     *)
(* chunks run by the threads, ComputeEnergyChunkFinalize.  State s has     *)
(* previous_state_id s-1.  Angles are counted in units of 30 degrees.      *)
(***************************************************************************)
MaxEvalStates == 2
MaxStage == 1

EvalStates == 1 .. MaxEvalStates
Stages == 0 .. MaxStage
Unset == -1
DotValues == {0, 2, 4}
ThreadCounts == {1, 2}
Tol8Eps == 0

\* lines 759-760: 0.5*sqrt(dot) >= 1 gives 180, else asin(arg)*(360/PI)
MaxAng(dot) ==
  CASE dot = 0 -> 0
    [] dot = 1 -> 2
    [] dot = 2 -> 3
    [] dot = 3 -> 4
    [] OTHER -> 6

\* lines 755-758
TotalMaxdot == CHOOSE d \in DotValues :
                 /\ \A t \in DOMAIN maxdot : maxdot[t] <= d
                 /\ d = 0 \/ \E t \in DOMAIN maxdot : maxdot[t] = d

\* the exception test is replaced by one that never fires
AngleDiffers_Never(orig, maxang) == FALSE

\* lines 789-792: diff*sum, with sum folded at PI (6 units)
AngleDiffers(orig, maxang) ==
  LET diff == orig - maxang
      sum == IF orig + maxang > 6 THEN 12 - (orig + maxang) ELSE orig + maxang
  IN  diff * sum > Tol8Eps \/ -(diff * sum) > Tol8Eps

\* the second test is replaced by one that always fires
NewStage_Always(stage, last) == TRUE

\* line 733
NewStage(stage, last) == stage # last

NoData == [msa |-> Unset, smsa |-> Unset, rmsa |-> Unset]

EvalIdle ==
  /\ e_pc = "idle"
  /\ e_state = 0
  /\ stage_number = [s \in EvalStates |-> 0]
  /\ derived = [s \in EvalStates |-> NoData]
  /\ existing = EvalStates
  /\ last_stage_number = -1
  /\ m_e_set = {}
  /\ params_sized = FALSE
  /\ update_runs = 0
  /\ e_error = FALSE

(***************************************************************************)
(* YY_LLBEulerEvolve: Step, UpdateDerivedOutputs and Calculate_dm_dt.      *)
(* Times and errors are exact fractions << numerator, denominator >>.      *)
(***************************************************************************)
MaxIter == 2
MaxAttempts == 3
MaxFaults == 1

RECURSIVE Gcd(_, _)
Gcd(a, b) == IF b = 0 THEN a ELSE Gcd(b, a % b)

Frac(n, d) == << n \div Gcd(n, d), d \div Gcd(n, d) >>
Times(a, b) == Frac(a[1] * b[1], a[2] * b[2])
Over(a, b) == Frac(a[1] * b[2], a[2] * b[1])
Less(a, b) == a[1] * b[2] < b[1] * a[2]

\* lines 93-94 and 187-190: fixed_timestep, or 0 and 1e-10 at temperature 0
min_timestep(cfg) == IF cfg.thermal THEN << 1, 1 >> ELSE << 0, 1 >>
max_timestep(cfg) == IF cfg.thermal THEN << 1, 1 >> ELSE << 4, 1 >>

\* lines 104-120: step_headroom is hn/2; a negative limit is switched off
EvolverConfigs ==
  {cfg \in [hn : {1, 4}, rate : {-1, 3}, abserr : {-1, 2},
            relerr : {-1, 1}, thermal : BOOLEAN] :
     \/ cfg.rate = -1 /\ cfg.abserr = -1
     \/ cfg.rate = -1 /\ cfg.relerr = -1
     \/ cfg.abserr = -1 /\ cfg.relerr = -1}

ErrValues == {0, 4, 8}
DmDtValues == {0, 1}
start_dm == 2

AllKeys == {"Max dm/dt", "dE/dt", "Delta E", "pE/pt", "Timestep lower bound"}

NewState(sid) ==
  [id |-> sid, iteration_count |-> 0, stage_iteration_count |-> 0,
   previous_state_id |-> 0, data |-> {}, max_dm_dt |-> 0, tlb |-> << 0, 1 >>]

NoAttempt ==
  [result |-> "none", fill |-> "ok", forcestep |-> FALSE,
   stepsize |-> << 0, 1 >>, exceeded |-> FALSE, energy_fail |-> FALSE,
   missing |-> {}, faults |-> 0]

StepIdle ==
  /\ ev_cfg = [hn |-> 2, rate |-> -1, abserr |-> -1, relerr |-> -1,
               thermal |-> TRUE]
  /\ ev = [next_timestep |-> << 0, 1 >>, energy_state_id |-> 0,
           dm_dt_id |-> 0, mxH_id |-> 0, iteration_Tcalculated |-> 0]
  /\ cstate = NewState(1)
  /\ step_calls = 0
  /\ current_attempt_count = 0
  /\ att = NoAttempt
  /\ draws = [k \in 1 .. (MaxIter + 1) |-> 0]

\* the derivative goes straight into the output cache under the id of the
\* state it was computed for
Calculate_dm_dt_IntoCache(e, st) ==
  [drew |-> st.iteration_count + 1 > e.iteration_Tcalculated,
   ev |-> [e EXCEPT !.iteration_Tcalculated = st.iteration_count + 1,
                    !.dm_dt_id = st.id]]

\* Calculate_dm_dt, lines 294-305, 343 and 430: whether the thermal fields
\* are generated for the state, and the members afterwards
Calculate_dm_dt(e, st) ==
  [drew |-> st.iteration_count + 1 > e.iteration_Tcalculated,
   ev |-> [e EXCEPT !.iteration_Tcalculated = st.iteration_count + 1]]

\* UpdateDerivedOutputs(st), lines 900-989; mdt and lb are the Max dm/dt and
\* the Timestep lower bound it computes when the state has none
DerivedOutputs(e, st, mdt, lb) ==
  IF st.data = AllKeys /\ e.dm_dt_id = st.id /\ e.mxH_id = st.id
  THEN [ev |-> e, st |-> st, threw |-> FALSE, drew |-> FALSE]
  ELSE LET c == Calculate_dm_dt([e EXCEPT !.energy_state_id = st.id,
                                          !.mxH_id = st.id,
                                          !.dm_dt_id = 0], st)
           threw == "Delta E" \notin st.data /\ st.previous_state_id # 0
                    /\ st.stage_iteration_count > 0
       IN  [ev |-> [c.ev EXCEPT !.dm_dt_id = st.id],
            st |-> [st EXCEPT
                      !.data = IF threw THEN AllKeys \ {"Delta E"}
                               ELSE AllKeys,
                      !.max_dm_dt = IF "Max dm/dt" \in st.data THEN @ ELSE mdt,
                      !.tlb = IF "Timestep lower bound" \in st.data THEN @
                              ELSE lb],
            threw |-> threw,
            drew |-> c.drew]

\* the cache test is skipped
CacheGood_Always(e, st) == TRUE

\* lines 536-544
CacheGood(e, st) ==
  st.data = AllKeys /\ e.energy_state_id = st.id /\ e.dm_dt_id = st.id

\* lines 555-572: the proposed step and whether it had to be raised to
\* min_timestep
Proposal(cfg, e, st) ==
  LET s0 == IF e.next_timestep[1] <= 0
            THEN IF st.max_dm_dt > 0 THEN Frac(start_dm, st.max_dm_dt)
                 ELSE << 1000, 1 >>
            ELSE e.next_timestep
      low == Less(s0, min_timestep(cfg))
      s1 == IF low THEN min_timestep(cfg) ELSE s0
  IN  [forcestep |-> low,
       stepsize |-> IF Less(max_timestep(cfg), s1) THEN max_timestep(cfg)
                    ELSE s1]

\* lines 728-741
WorkingAllowedError(cfg, max_error, stepsize, max_dm_dt) ==
  LET w0 == Frac(5 * max_error, 2 * cfg.hn)
      w1 == IF cfg.rate >= 0 /\ Less(<< cfg.rate, 1 >>, w0)
            THEN << cfg.rate, 1 >> ELSE w0
      w2 == IF cfg.abserr >= 0 /\ Less(<< cfg.abserr, 1 >>, Times(stepsize, w1))
            THEN Over(<< cfg.abserr, 1 >>, stepsize) ELSE w1
  IN  IF cfg.relerr >= 0 /\ Less(<< cfg.relerr * max_dm_dt, 1 >>, w2)
      THEN << cfg.relerr * max_dm_dt, 1 >> ELSE w2

\* the lower clamp of the rejected step is dropped
Clamp_None(f) == f

\* lines 752-753 and 766-767: max_step_decrease
Clamp(f) == IF Less(f, << 1, 2 >>) THEN << 1, 2 >> ELSE f

\* the forced flag is ignored
Decide_Unforced(cfg, forcestep, max_error, w, energy_fail) ==
  LET exceeded == Less(w, << max_error, 1 >>)
      hw == Times(<< cfg.hn, 2 >>, w)
      nt == IF exceeded THEN Over(hw, << max_error, 1 >>)
            ELSE IF energy_fail THEN << 1, 2 >> ELSE << 1, 1 >>
  IN  IF Less(nt, << 1, 1 >>)
      THEN [reject |-> TRUE, factor |-> Clamp(nt)]
      ELSE [reject |-> FALSE,
            factor |-> IF Less(hw, << 5 * max_error, 4 >>)
                       THEN Clamp(Over(hw, << max_error, 1 >>))
                       ELSE << 5, 4 >>]

\* lines 742-768: the decision and next_timestep, relative to stepsize
Decide(cfg, forcestep, max_error, w, energy_fail) ==
  LET exceeded == Less(w, << max_error, 1 >>)
      hw == Times(<< cfg.hn, 2 >>, w)
      nt == IF exceeded THEN Over(hw, << max_error, 1 >>)
            ELSE IF energy_fail THEN << 1, 2 >> ELSE << 1, 1 >>
  IN  IF ~forcestep /\ Less(nt, << 1, 1 >>)
      THEN [reject |-> TRUE, factor |-> Clamp(nt)]
      ELSE [reject |-> FALSE,
            factor |-> IF Less(hw, << 5 * max_error, 4 >>)
                       THEN Clamp(Over(hw, << max_error, 1 >>))
                       ELSE << 5, 4 >>]

(***************************************************************************)
(* YY_2LatDriver: Init, IsStageDone, IsRunDone and Run.  The two current   *)
(* states of the sublattices move in lockstep and are one record.          *)
(***************************************************************************)
Statuses == {"INVALID", "STAGE_START", "INSIDE_STAGE", "STAGE_END", "DONE"}

\* total_iteration_limit and the stage_iteration_limit list (one entry) as
\* read at lines 376 and 387-392, number_of_stages (lines 326-328); ndebug:
\* the build defines NDEBUG (line 609)
DriverConfigs ==
  [total_iteration_limit : {0, MaxIter}, stage_iteration_limit : {0, 1},
   number_of_stages : {1, MaxStage + 1}, ndebug : BOOLEAN]

\* Init, lines 336-338: GetInitialState provided no state
NullState == [null |-> TRUE]

\* a state as GetInitialState, the evolver's Step or FillNewStageState
\* leaves it: stage_done and run_done not yet known; has_status: the state
\* holds the derived datum "YY_2LatDriver Problem Status"
SimState(stage, iter, stage_iter, has_status) ==
  [null |-> FALSE, stage_number |-> stage, iteration_count |-> iter,
   stage_iteration_count |-> stage_iter, stage_done |-> "UNKNOWN",
   run_done |-> "UNKNOWN", has_status |-> has_status]

DriverIdle ==
  /\ d_cfg = [total_iteration_limit |-> 0, stage_iteration_limit |-> 0,
              number_of_stages |-> 1, ndebug |-> TRUE]
  /\ problem_status = "INVALID"
  /\ dstate = NullState
  /\ d_pc = "idle"
  /\ step_events = 0
  /\ d_step_calls = 0
  /\ d_error = FALSE
  /\ d_last = "none"

\* IsStageDone, lines 365-412: the result and the state with stage_done set
IsStageDone(cfg, st, child) ==
  IF st.stage_done = "DONE" THEN [done |-> TRUE, st |-> st]
  ELSE IF st.stage_done = "NOT_DONE" THEN [done |-> FALSE, st |-> st]
  ELSE LET done ==
             \/ /\ cfg.total_iteration_limit > 0
                /\ st.iteration_count >= cfg.total_iteration_limit
             \/ /\ cfg.stage_iteration_limit > 0
                /\ st.stage_iteration_count + 1 >= cfg.stage_iteration_limit
             \/ child
       IN  [done |-> done,
            st |-> [st EXCEPT !.stage_done =
                                IF done THEN "DONE" ELSE "NOT_DONE"]]

\* IsRunDone, lines 414-454
IsRunDone(cfg, st, child_stage, child_run) ==
  IF st.run_done = "DONE" THEN [done |-> TRUE, st |-> st]
  ELSE IF st.run_done = "NOT_DONE" THEN [done |-> FALSE, st |-> st]
  ELSE IF /\ cfg.total_iteration_limit > 0
          /\ st.iteration_count >= cfg.total_iteration_limit
       THEN [done |-> TRUE, st |-> [st EXCEPT !.run_done = "DONE"]]
  ELSE IF st.stage_number >= cfg.number_of_stages
       THEN [done |-> TRUE, st |-> [st EXCEPT !.run_done = "DONE"]]
  ELSE LET s == IF st.stage_number + 1 = cfg.number_of_stages
                THEN IsStageDone(cfg, st, child_stage)
                ELSE [done |-> FALSE, st |-> st]
           done == s.done \/ child_run
       IN  [done |-> done,
            st |-> [s.st EXCEPT !.run_done =
                                  IF done THEN "DONE" ELSE "NOT_DONE"]]

\* the loop goes on also when the run is done
Continue_IgnoreDone(events, calls, status) == events < 1 /\ calls < 2

\* Run, lines 494-498: max_steps = 1, allowed_step_calls = 2
Continue(events, calls, status) ==
  events < 1 /\ calls < 2 /\ status # "DONE"

\* the evolver as its constructor leaves it (lines 82-88), no problem
\* loaded, no call made; the solver not called
DerivIdle ==
  /\ tm = [mesh_id |-> 0, arrays_size |-> 0, alpha_t |-> 0, alpha_l |-> 0,
           gamma |-> 0, hFluctVarConst_t |-> 0, hFluctVarConst_l |-> 0,
           hFluct_size |-> 0, hFluct_t |-> << >>, hFluct_l |-> << >>,
           iteration_Tcalculated |-> 0]
  /\ prob = [mesh |-> [id |-> 1, size |-> 1], iteration_count |-> 0,
             alpha_t0 |-> 0, gamma0 |-> 1, temperature |-> 0,
             do_precess |-> TRUE, ito_calculus |-> FALSE]
  /\ dout = [called |-> FALSE, need |-> FALSE, drew |-> FALSE,
             fixed |-> {}, Ms_inverse |-> << >>, field |-> << 0, 0, 0 >>,
             dm_dt_t |-> << >>, dm_dt_l |-> << >>, max_dm_dt_sq |-> 0]

SolveIdle ==
  sol = [pc |-> "idle", J |-> 1, T |-> 0, tol_in |-> << 1, 10000 >>,
         tol |-> << 0, 1 >>, x |-> << 0, 1 >>, y |-> << 0, 1 >>, iterations |-> 0,
         m_e |-> << 0, 1 >>]

CalcIdle == DerivIdle /\ SolveIdle

RestIdle == EvalIdle /\ StepIdle /\ DriverIdle /\ CalcIdle

\* ComputeEnergyChunkInitialize(state s of sublattice lat, number_of_threads),
\* lines 680-745
ChunkInitialize(s, lat, number_of_threads) ==
  /\ e_pc = "idle"
  /\ LET first == (last_stage_number = -1)
         last1 == IF first THEN stage_number[s] ELSE last_stage_number
         again == NewStage(stage_number[s], last1)
     IN  /\ last_stage_number' = stage_number[s]
         /\ m_e_set' = IF first /\ lat # "TOTAL" THEN m_e_set \cup {s}
                       ELSE m_e_set
         /\ params_sized' = (first \/ params_sized)
         /\ update_runs' = (IF first THEN 1 ELSE 0) + (IF again THEN 1 ELSE 0)
  /\ maxdot' = [t \in 0 .. (number_of_threads - 1) |-> 0]
  /\ e_pc' = "chunks"
  /\ e_state' = s
  /\ e_error' = FALSE
  /\ UNCHANGED << stage_number, derived, existing, notEval >>

\* CalcEnergyA of thread t, lines 562 and 676, as far as maxdot goes
ChunkRun(t) ==
  /\ e_pc = "chunks"
  /\ t \in DOMAIN maxdot
  /\ \E d \in DotValues : d > maxdot[t] /\ maxdot' = [maxdot EXCEPT ![t] = d]
  /\ UNCHANGED << evalVars, notEval >>

\* lines 813-833: the stage and run maxima carried over from the old state
StageMaxang(s, maxang) ==
  LET old == s - 1
      found == old # 0 /\ old \in existing
      carried == IF ~found THEN -1
                 ELSE IF stage_number[old] # stage_number[s] THEN 0
                 ELSE derived[old].smsa
  IN  IF carried < maxang THEN maxang ELSE carried

RunMaxang(s, maxang) ==
  LET old == s - 1
      carried == IF old # 0 /\ old \in existing THEN derived[old].rmsa ELSE -1
  IN  IF carried < maxang THEN maxang ELSE carried

\* ComputeEnergyChunkFinalize, lines 748-844
ChunkFinalize ==
  /\ e_pc = "chunks"
  /\ e_pc' = "idle"
  /\ LET s == e_state
         maxang == MaxAng(TotalMaxdot)
         old == derived[s]
     IN  IF old.msa # Unset /\ AngleDiffers(old.msa, maxang)
         THEN /\ e_error' = TRUE
              /\ UNCHANGED derived
         ELSE /\ e_error' = FALSE
              /\ derived' = [derived EXCEPT ![s] =
                   [msa |-> IF old.msa # Unset THEN old.msa ELSE maxang,
                    smsa |-> IF old.smsa # Unset THEN old.smsa
                             ELSE StageMaxang(s, maxang),
                    rmsa |-> IF old.rmsa # Unset THEN old.rmsa
                             ELSE RunMaxang(s, maxang)]]
  /\ update_runs' = 0
  /\ UNCHANGED << e_state, stage_number, existing, last_stage_number, m_e_set,
                  params_sized, maxdot, notEval >>

\* the director drops the oldest state once nothing holds it any longer
DropState(s) ==
  /\ e_pc = "idle"
  /\ s \in existing
  /\ \A o \in existing : s <= o
  /\ s < MaxEvalStates
  /\ existing' = existing \ {s}
  /\ UNCHANGED << e_pc, e_state, stage_number, derived, last_stage_number,
                  m_e_set, params_sized, update_runs, e_error, maxdot,
                  notEval >>

\* Init(), lines 474-484, as far as the per-cell parameter arrays go: they
\* are released; last_stage_number is left as it is
InitRelease ==
  /\ e_pc = "idle"
  /\ params_sized' = FALSE
  /\ UNCHANGED << e_pc, e_state, stage_number, derived, existing,
                  last_stage_number, m_e_set, update_runs, e_error, maxdot,
                  notEval >>

NextEval ==
  \/ \E s \in EvalStates : \E lat \in {"TOTAL", "LATTICE1", "LATTICE2"} :
       \E n \in ThreadCounts : s \in existing /\ ChunkInitialize(s, lat, n)
  \/ \E t \in Threads : ChunkRun(t)
  \/ ChunkFinalize
  \/ \E s \in EvalStates : DropState(s)
  \/ InitRelease

(***************************************************************************)
(* The constructor: region count check, coefficient type, and the three    *)
(* coefficient matrices (channel 1: lattice 1, 2: lattice 2, 3: cross).    *)
(***************************************************************************)
MaxTriples == 2

Channels == 1 .. 3

SizeofIndex == 4

AllNames == << "universe", "core", "shell", "cap", "rim" >>

TripleNames == {AllNames[k] : k \in 1 .. 3}

CoefStrings == {"1", "x"}

DefaultChoices == { [c \in Channels |-> 0], [c \in Channels |-> c + 1] }

InitKeys == {"A1", "A2", "A12", "lex1", "lex2", "lex12"}

RECURSIVE Pow2(_)
Pow2(n) == IF n = 0 THEN 1 ELSE 2 * Pow2(n - 1)

\* lines 106-123: the largest region count whose square fits OC_INDEX
MaxCoefSize(sz) ==
  LET sqrootbits == (sz * 8 - 1) \div 2
      coef_check == Pow2(sqrootbits)
  IN  IF sz = 1 THEN 11
      ELSE IF sz < 5 THEN (coef_check * 239 + 168) \div 169 - 1
      ELSE (coef_check * 275807 + 195024) \div 195025 - 1

CtorRegionCounts == {0, 1, 2, MaxCoefSize(SizeofIndex) + 1}

\* lines 99 and 124
CountOutOfRange(n, max) == n < 1 \/ n > max

\* atlas->GetRegionId(name): the id of the named region, -1 if unknown
GetRegionId(a, name) ==
  LET ks == {k \in 1 .. Len(AllNames) : k <= a.count /\ AllNames[k] = name}
  IN  IF ks = {} THEN -1 ELSE (CHOOSE k \in ks : TRUE) - 1

\* Nb_Atof(str, err)
Nb_Atof(str) ==
  CASE str = "1" -> [val |-> 1, err |-> FALSE]
    [] OTHER     -> [val |-> 0, err |-> TRUE]

\* lines 147-181: the outcome of the coefficient type selection
CoefTypeOf(present) ==
  LET has_A   == present \cap {"A1", "A2", "A12"} # {}
      has_lex == present \cap {"lex1", "lex2", "lex12"} # {}
  IN  IF has_A /\ has_lex THEN "error"
      ELSE IF has_lex
        THEN IF {"lex1", "lex2", "lex12"} \subseteq present
               THEN "LEX_TYPE" ELSE "error"
        ELSE IF {"A1", "A2", "A12"} \subseteq present
               THEN "A_TYPE" ELSE "error"

\* lines 182-197
BadListLengths(lens) ==
  \/ \E c \in Channels : lens[c] = 0
  \/ \E c \in Channels : lens[c] % 3 # 0

\* lines 216, 297, 378
DefaultMatrix(n, d) == [i \in 0 .. (n - 1) |-> [j \in 0 .. (n - 1) |-> d]]

\* a rejection test that overlooks the second region name
TripleRejected_FirstOnly(i1, i2, err) == i1 < 0 \/ err

\* lines 220 and 259
TripleRejected(i1, i2, err) == i1 < 0 \/ i2 < 0 \/ err

\* a store that writes the named entry only, without its mirror image
StorePair_OneWay(m, i1, i2, v) ==
  [i \in DOMAIN m |-> [j \in DOMAIN m[i] |->
     IF i = i1 /\ j = i2 THEN v ELSE m[i][j]]]

\* lines 271-272
StorePair(m, i1, i2, v) ==
  [i \in DOMAIN m |-> [j \in DOMAIN m[i] |->
     IF (i = i1 /\ j = i2) \/ (i = i2 /\ j = i1) THEN v ELSE m[i][j]]]

Blocks(c) == { << c, "rows" >>, << c, "data" >> }

\* the members after a successful construction with n regions that left
\* the matrices mats
ConstructedWith(n, mats, type) ==
  /\ ctor_pc = "constructed"
  /\ coef_size = n
  /\ excoeftype = type
  /\ coef = mats
  /\ coef_ptr = [c \in Channels |-> TRUE]
  /\ heap = UNION {Blocks(c) : c \in Channels}
  /\ nparams = [c \in Channels |-> 3]
  /\ default_coef = [c \in Channels |-> 0]
  /\ chan = 3
  /\ ip = 3
  /\ named = [c \in Channels |-> {}]
  /\ bad_config = FALSE

Constructed(n) ==
  ConstructedWith(n, [c \in Channels |-> DefaultMatrix(n, 0)], "A_TYPE")

InitCtor ==
  /\ RestIdle
  /\ atlas \in [count : CtorRegionCounts, hole : {FALSE}]
  /\ InitChunkVars
  /\ KernelIdle
  /\ ctor_pc = "start"
  /\ coef_size = 0
  /\ excoeftype = "A_UNKNOWN"
  /\ coef = [c \in Channels |-> << >>]
  /\ coef_ptr = [c \in Channels |-> FALSE]
  /\ heap = {}
  /\ nparams = [c \in Channels |-> 0]
  /\ default_coef = [c \in Channels |-> 0]
  /\ chan = 0
  /\ ip = 0
  /\ named = [c \in Channels |-> {}]
  /\ bad_config = FALSE

\* lines 66-94: the required initialisation values
CtorGetInit ==
  /\ ctor_pc = "start"
  /\ \E have_all \in BOOLEAN :
       ctor_pc' = IF have_all THEN "count" ELSE "failed"
  /\ UNCHANGED << coef_size, excoeftype, coef, coef_ptr, heap, nparams,
                  default_coef, chan, ip, named, bad_config, notCtor >>

\* lines 96-133
CtorRegionCount ==
  /\ ctor_pc = "count"
  /\ coef_size' = GetRegionCount(atlas)
  /\ ctor_pc' = IF CountOutOfRange(GetRegionCount(atlas),
                                   MaxCoefSize(SizeofIndex))
                  THEN "failed" ELSE "type"
  /\ bad_config' = (bad_config \/ atlas.count < 1
                      \/ atlas.count > MaxCoefSize(SizeofIndex))
  /\ UNCHANGED << excoeftype, coef, coef_ptr, heap, nparams, default_coef,
                  chan, ip, named, notCtor >>

\* lines 135-197
CtorCoefType ==
  /\ ctor_pc = "type"
  /\ \E present \in SUBSET InitKeys,
        lens \in [Channels -> 0 .. (3 * MaxTriples)],
        dflt \in DefaultChoices :
       /\ bad_config' =
            (bad_config
               \/ (present \cap {"A1", "A2", "A12"} # {}
                     /\ present \cap {"lex1", "lex2", "lex12"} # {})
               \/ \E c \in Channels : lens[c] % 3 # 0)
       /\ IF CoefTypeOf(present) = "error" \/ BadListLengths(lens)
            THEN /\ ctor_pc' = "failed"
                 /\ UNCHANGED << excoeftype, nparams, default_coef, chan >>
            ELSE /\ ctor_pc' = "alloc"
                 /\ excoeftype' = CoefTypeOf(present)
                 /\ nparams' = lens
                 /\ default_coef' = dflt
                 /\ chan' = 1
  /\ UNCHANGED << coef_size, coef, coef_ptr, heap, ip, named, notCtor >>

\* lines 209-216, 290-297, 371-378: the two allocations and the default fill
CtorAlloc ==
  /\ ctor_pc = "alloc"
  /\ \E outcome \in {"ok", "bad_alloc_rows", "bad_alloc_data"} :
       CASE outcome = "ok" ->
              /\ heap' = heap \cup Blocks(chan)
              /\ coef_ptr' = [coef_ptr EXCEPT ![chan] = TRUE]
              /\ coef' = [coef EXCEPT ![chan] =
                            DefaultMatrix(coef_size, default_coef[chan])]
              /\ ctor_pc' = "fill"
         [] outcome = "bad_alloc_rows" ->
              /\ ctor_pc' = "catch"
              /\ UNCHANGED << heap, coef_ptr, coef >>
         [] outcome = "bad_alloc_data" ->
              /\ heap' = heap \cup { << chan, "rows" >> }
              /\ coef_ptr' = [coef_ptr EXCEPT ![chan] = TRUE]
              /\ ctor_pc' = "catch"
              /\ UNCHANGED coef
  /\ ip' = 0
  /\ UNCHANGED << coef_size, excoeftype, nparams, default_coef, chan, named,
                  bad_config, notCtor >>

\* lines 217-273, 298-354, 379-435: one triple of the channel's list
CtorTriple ==
  /\ ctor_pc = "fill"
  /\ ip < nparams[chan]
  /\ \E n1 \in TripleNames, n2 \in TripleNames, str \in CoefStrings :
       LET i1 == GetRegionId(atlas, n1)
           i2 == GetRegionId(atlas, n2)
           pair == Nb_Atof(str)
       IN  /\ bad_config' =
                (bad_config \/ GetRegionId(atlas, n1) = -1
                   \/ GetRegionId(atlas, n2) = -1 \/ Nb_Atof(str).err)
           /\ IF TripleRejected(i1, i2, pair.err)
                THEN /\ ctor_pc' = "catch"
                     /\ UNCHANGED << coef, ip, named >>
                ELSE /\ coef' = [coef EXCEPT ![chan] =
                                   StorePair(@, i1, i2, pair.val)]
                     /\ named' = [named EXCEPT ![chan] = @ \cup {{i1, i2}}]
                     /\ ip' = ip + 3
                     /\ UNCHANGED ctor_pc
  /\ UNCHANGED << coef_size, excoeftype, coef_ptr, heap, nparams,
                  default_coef, chan, notCtor >>

\* lines 274, 355, 436-449: the list is exhausted; the last channel also
\* verifies that every init value was used and registers the outputs
CtorChannelDone ==
  /\ ctor_pc = "fill"
  /\ ip >= nparams[chan]
  /\ IF chan < 3
       THEN /\ chan' = chan + 1
            /\ ctor_pc' = "alloc"
       ELSE /\ \E all_used \in BOOLEAN :
                 ctor_pc' = IF all_used THEN "constructed" ELSE "catch"
            /\ UNCHANGED chan
  /\ UNCHANGED << coef_size, excoeftype, coef, coef_ptr, heap, nparams,
                  default_coef, ip, named, bad_config, notCtor >>

\* lines 277-284, 358-365, 451-458: the catch clause of the channel that
\* was being built releases that channel's matrix; then the exception
\* leaves the constructor, whose locals and members cease to exist, and
\* what is still on the heap stays there
CtorCatch ==
  /\ ctor_pc = "catch"
  /\ heap' = IF coef_size > 0 /\ coef_ptr[chan]
               THEN heap \ Blocks(chan) ELSE heap
  /\ coef' = [c \in Channels |-> << >>]
  /\ coef_ptr' = [c \in Channels |-> FALSE]
  /\ coef_size' = 0
  /\ nparams' = [c \in Channels |-> 0]
  /\ default_coef' = [c \in Channels |-> 0]
  /\ ip' = 0
  /\ named' = [c \in Channels |-> {}]
  /\ ctor_pc' = "failed"
  /\ UNCHANGED << excoeftype, chan, bad_config, notCtor >>

NextCtor ==
  \/ CtorGetInit
  \/ CtorRegionCount
  \/ CtorCoefType
  \/ CtorAlloc
  \/ CtorTriple
  \/ CtorChannelDone
  \/ CtorCatch

SpecCtor == InitCtor /\ [][NextCtor]_vars

(***************************************************************************)
(* CalcEnergyA: the six-neighbour exchange kernel on cells                 *)
(* node_start .. node_stop-1 of a rectangular mesh.  Reals are integers:   *)
(* spins have integer components, the weights -1/edge^2 are counted in     *)
(* units of 1/WgtUnit, and fields in units of 1/MU0.                       *)
(***************************************************************************)
MaxCells == 3

MaxSweepCells == 4

WgtUnit == 36

EdgeLength == [x |-> 1, y |-> 2, z |-> 3]

hcoef == -2

MeshConfigs ==
  {m \in [xdim : 1 .. MaxCells, ydim : 1 .. MaxCells, zdim : 1 .. MaxCells,
          xperiodic : BOOLEAN, yperiodic : BOOLEAN, zperiodic : BOOLEAN] :
     m.xdim * m.ydim * m.zdim <= MaxCells}

Size(m) == m.xdim * m.ydim * m.zdim

Cells(m) == 0 .. (Size(m) - 1)

\* mesh->Volume(0)
Volume(m) == EdgeLength.x * EdgeLength.y * EdgeLength.z

\* mesh->GetCoords(index, x, y, z)
GetCoords(m, index) ==
  [x |-> index % m.xdim,
   y |-> (index \div m.xdim) % m.ydim,
   z |-> index \div (m.xdim * m.ydim)]

\* spins that differ between any two neighbouring cells, and a uniform field
SpinPatterns(m) ==
  { [k \in Cells(m) |-> CASE k % 3 = 0 -> << 1, 0, 0 >>
                          [] k % 3 = 1 -> << 0, 1, 0 >>
                          [] OTHER     -> << 0, 0, 1 >>],
    [k \in Cells(m) |-> << 0, 0, 1 >>] }

\* region maps: one region everywhere, or two regions alternating
RegionPatterns(m) ==
  { [k \in 1 .. Size(m) |-> 0],
    [k \in 1 .. Size(m) |-> (k - 1) % 2] }

OcedtConfigs ==
  { [direct |-> TRUE, accum |-> FALSE], [direct |-> FALSE, accum |-> TRUE] }

Mat2(a, b, d) ==
  [r \in 0 .. 1 |-> [c \in 0 .. 1 |->
     IF r # c THEN b ELSE IF r = 0 THEN a ELSE d]]

KernelCoef == << Mat2(1, 2, 0), Mat2(0, 1, 3), Mat2(0, 0, 0) >>

VAdd(a, b) == << a[1] + b[1], a[2] + b[2], a[3] + b[3] >>

VSub(a, b) == << a[1] - b[1], a[2] - b[2], a[3] - b[3] >>

VScale(k, a) == << k * a[1], k * a[2], k * a[3] >>

MagSq(a) == a[1] * a[1] + a[2] * a[2] + a[3] * a[3]

\* a weight with the sign dropped
Wgt_Positive(edge) == WgtUnit \div (edge * edge)

\* lines 555-557
Wgt(edge) == -(WgtUnit \div (edge * edge))

\* the six neighbour blocks in the order of lines 592-648
Dirs == << "z-", "y-", "x-", "x+", "y+", "z+" >>

NegDirs == {"z-", "y-", "x-"}

DirWgt(d) ==
  CASE d \in {"x-", "x+"} -> Wgt(EdgeLength.x)
    [] d \in {"y-", "y+"} -> Wgt(EdgeLength.y)
    [] OTHER              -> Wgt(EdgeLength.z)

\* a test that never wraps around: boundary cells have no outward neighbour
HasNeighbour_NoWrap(m, d, x, y, z) ==
  CASE d = "z-" -> z > 0
    [] d = "y-" -> y > 0
    [] d = "x-" -> x > 0
    [] d = "x+" -> x < m.xdim - 1
    [] d = "y+" -> y < m.ydim - 1
    [] OTHER    -> z < m.zdim - 1

\* lines 592, 604, 616, 628, 635, 642: the cell has a neighbour that way
HasNeighbour(m, d, x, y, z) ==
  CASE d = "z-" -> z > 0 \/ m.zperiodic
    [] d = "y-" -> y > 0 \/ m.yperiodic
    [] d = "x-" -> x > 0 \/ m.xperiodic
    [] d = "x+" -> x < m.xdim - 1 \/ m.xperiodic
    [] d = "y+" -> y < m.ydim - 1 \/ m.yperiodic
    [] OTHER    -> z < m.zdim - 1 \/ m.zperiodic

\* lines 593-594, 605-606, 617-618, 629-630, 636-637, 643-644
NeighbourIndex(m, d, i, x, y, z) ==
  LET xydim  == m.xdim * m.ydim
      xyzdim == m.xdim * m.ydim * m.zdim
  IN  CASE d = "z-" -> (i - xydim) + (IF z = 0 THEN xyzdim ELSE 0)
        [] d = "y-" -> (i - m.xdim) + (IF y = 0 THEN xydim ELSE 0)
        [] d = "x-" -> (i - 1) + (IF x = 0 THEN m.xdim ELSE 0)
        [] d = "x+" -> (i + 1) - (IF x = m.xdim - 1 THEN m.xdim ELSE 0)
        [] d = "y+" -> (i + m.xdim) - (IF y = m.ydim - 1 THEN xydim ELSE 0)
        [] OTHER    -> (i + xydim) - (IF z = m.zdim - 1 THEN xyzdim ELSE 0)

\* a test that adds the term of a neighbour whatever its Ms
TermAdded_AnyMs(d, ApairA, msj) == IF d \in NegDirs THEN ApairA # 0 ELSE TRUE

\* lines 597, 609, 621 (negative directions) and 633, 640, 647 (positive)
TermAdded(d, ApairA, msj) ==
  IF d \in NegDirs THEN ApairA # 0 /\ msj # 0 ELSE msj # 0

\* lines 512-513, 520-521
CoefA(lt, mats) == IF lt = "LATTICE1" THEN mats[1] ELSE mats[2]

\* the directions whose term is added to the sum of cell i
AddedDirs(m, i, x, y, z) ==
  {k \in 1 .. Len(Dirs) :
     /\ HasNeighbour(m, Dirs[k], x, y, z)
     /\ LET j == NeighbourIndex(m, Dirs[k], i, x, y, z)
        IN  TermAdded(Dirs[k],
                      CoefA(lattice_type, coef)[region_id[i + 1]][region_id[j + 1]],
                      Ms_inverse[j])}

\* the neighbours cell i looks up: direction, index j, the coefficient
\* ArowA[region_id[j]] read for it and the weight its term is scaled by
Lookups(m, i, x, y, z) ==
  {[dir |-> Dirs[k],
    j |-> NeighbourIndex(m, Dirs[k], i, x, y, z),
    ApairA |-> CoefA(lattice_type, coef)[region_id[i + 1]]
                 [region_id[NeighbourIndex(m, Dirs[k], i, x, y, z) + 1]],
    wgt |-> DirWgt(Dirs[k])] :
     k \in {n \in 1 .. Len(Dirs) : HasNeighbour(m, Dirs[n], x, y, z)}}

\* a term that leaves out the cell's own spin: ApairA*wgt*spinA[j]
Term_NoBase(m, d, i, x, y, z) ==
  LET j == NeighbourIndex(m, d, i, x, y, z)
      ApairA == CoefA(lattice_type, coef)[region_id[i + 1]][region_id[j + 1]]
  IN  VScale(ApairA * DirWgt(d), spin[j])

\* one added term: ApairA*wgt*(spinA[j] - base)
Term(m, d, i, x, y, z) ==
  LET j == NeighbourIndex(m, d, i, x, y, z)
      ApairA == CoefA(lattice_type, coef)[region_id[i + 1]][region_id[j + 1]]
  IN  VScale(ApairA * DirWgt(d), VSub(spin[j], spin[i]))

RECURSIVE SumTerms(_, _, _, _, _, _)
SumTerms(m, ks, i, x, y, z) ==
  IF ks = {} THEN Zero3
  ELSE LET k == CHOOSE k \in ks : TRUE
       IN  VAdd(Term(m, Dirs[k], i, x, y, z),
                SumTerms(m, ks \ {k}, i, x, y, z))

\* lines 599-601, 611-613, 623-625: the largest squared spin difference
RECURSIVE MaxDot(_, _, _, _, _, _, _)
MaxDot(m, ks, i, x, y, z, start) ==
  IF ks = {} THEN start
  ELSE LET k == CHOOSE k \in ks : TRUE
           j == NeighbourIndex(m, Dirs[k], i, x, y, z)
           dot == MagSq(VSub(spin[j], spin[i]))
           rest == MaxDot(m, ks \ {k}, i, x, y, z, start)
       IN  IF Dirs[k] \in NegDirs /\ dot > rest THEN dot ELSE rest

InitKernel ==
  /\ RestIdle
  /\ atlas = [count |-> 2, hole |-> FALSE]
  /\ ConstructedWith(2, KernelCoef, "A_TYPE")
  /\ \E m \in MeshConfigs :
       /\ mesh = m
       /\ \E rid \in RegionPatterns(m) : ChunkVarsAre(Size(m), rid)
       /\ spin \in SpinPatterns(m)
       /\ Ms_inverse \in [Cells(m) -> {0, 1}]
       /\ \E a \in Cells(m) : \E b \in (a + 1) .. Size(m) :
            node_start = a /\ node_stop = b
       /\ energy = [k \in Cells(m) |-> Garbage]
       /\ H = [k \in Cells(m) |-> << Garbage, Garbage, Garbage >>]
       /\ mxH = [k \in Cells(m) |-> << Garbage, Garbage, Garbage >>]
       /\ energy_accum = [k \in Cells(m) |-> 0]
       /\ H_accum = [k \in Cells(m) |-> Zero3]
       /\ mxH_accum = [k \in Cells(m) |-> Zero3]
       /\ contrib = [k \in Cells(m) |-> {}]
       /\ lookups = [k \in Cells(m) |-> {}]
  /\ lattice_type \in {"TOTAL", "LATTICE1", "LATTICE2"}
  /\ ocedt \in OcedtConfigs
  /\ threadnumber = 0
  /\ k_pc = "start"
  /\ cell_i = 0
  /\ cell_x = 0
  /\ cell_y = 0
  /\ cell_z = 0
  /\ xstop = 0
  /\ energy_sum = 0
  /\ thread_maxdot = 0
  /\ maxdot = [t \in Threads |-> 0]
  /\ energy_total_accum = 0

\* lines 501-569: the lattice switch, the set-up, GetCoords(node_start)
KernelStart ==
  /\ k_pc = "start"
  /\ IF lattice_type = "TOTAL"
       THEN /\ k_pc' = "thrown"
            /\ UNCHANGED kernelLocals
       ELSE /\ k_pc' = "row"
            /\ energy_sum' = 0
            /\ thread_maxdot' = maxdot[threadnumber]
            /\ cell_i' = node_start
            /\ cell_x' = GetCoords(mesh, node_start).x
            /\ cell_y' = GetCoords(mesh, node_start).y
            /\ cell_z' = GetCoords(mesh, node_start).z
            /\ UNCHANGED xstop
  /\ UNCHANGED << kernelInputs, kernelOutputs, maxdot, energy_total_accum,
                  kernelProbes, notKernel >>

\* a row segment that always runs to the end of the row
RowStop_WholeRow(xdim, x, i, stop) == xdim

\* lines 571-572: where the segment of the row at hand stops
RowStop(xdim, x, i, stop) ==
  IF xdim - x > stop - i THEN x + (stop - i) ELSE xdim

\* lines 570-572: the outer loop test and the end of the row segment
KernelRow ==
  /\ k_pc = "row"
  /\ cell_i < node_stop
  /\ xstop' = RowStop(mesh.xdim, cell_x, cell_i, node_stop)
  /\ k_pc' = "cell"
  /\ UNCHANGED << kernelInputs, kernelOutputs, cell_i, cell_x, cell_y, cell_z,
                  energy_sum, thread_maxdot, maxdot, energy_total_accum,
                  kernelProbes, notKernel >>

\* lines 573-665: one cell of the row
KernelCell ==
  /\ k_pc = "cell"
  /\ cell_x < xstop
  /\ LET i == cell_i
         base == spin[i]
         Msii1 == Ms_inverse[i]
         ks == AddedDirs(mesh, i, cell_x, cell_y, cell_z)
         sum == SumTerms(mesh, ks, i, cell_x, cell_y, cell_z)
         ei == base[1] * sum[1] + base[2] * sum[2] + base[3] * sum[3]
         hmult == hcoef * Msii1
         hsum == VScale(hmult, sum)
         torque == << base[2] * hsum[3] - base[3] * hsum[2],
                      base[3] * hsum[1] - base[1] * hsum[3],
                      base[1] * hsum[2] - base[2] * hsum[1] >>
     IN  IF Msii1 = 0
           THEN /\ energy' = IF ocedt.direct
                               THEN [energy EXCEPT ![i] = 0] ELSE energy
                /\ H' = IF ocedt.direct THEN [H EXCEPT ![i] = Zero3] ELSE H
                /\ mxH' = IF ocedt.direct
                            THEN [mxH EXCEPT ![i] = Zero3] ELSE mxH
                /\ UNCHANGED << energy_accum, H_accum, mxH_accum, energy_sum,
                                thread_maxdot, kernelProbes >>
           ELSE /\ energy_sum' = energy_sum + ei
                /\ thread_maxdot' = MaxDot(mesh, ks, i, cell_x, cell_y,
                                           cell_z, thread_maxdot)
                /\ energy' = IF ocedt.direct
                               THEN [energy EXCEPT ![i] = ei] ELSE energy
                /\ H' = IF ocedt.direct THEN [H EXCEPT ![i] = hsum] ELSE H
                /\ mxH' = IF ocedt.direct
                            THEN [mxH EXCEPT ![i] = torque] ELSE mxH
                /\ energy_accum' = IF ocedt.accum
                                     THEN [energy_accum EXCEPT ![i] = @ + ei]
                                     ELSE energy_accum
                /\ H_accum' = IF ocedt.accum
                                THEN [H_accum EXCEPT ![i] = VAdd(@, hsum)]
                                ELSE H_accum
                /\ mxH_accum' = IF ocedt.accum
                                  THEN [mxH_accum EXCEPT ![i] = VAdd(@, torque)]
                                  ELSE mxH_accum
                /\ contrib' = [contrib EXCEPT ![i] =
                     {<< Dirs[k], NeighbourIndex(mesh, Dirs[k], i, cell_x,
                                                 cell_y, cell_z) >> : k \in ks}]
                /\ lookups' = [lookups EXCEPT ![i] =
                     Lookups(mesh, i, cell_x, cell_y, cell_z)]
  /\ cell_i' = cell_i + 1
  /\ cell_x' = cell_x + 1
  /\ UNCHANGED << k_pc, kernelInputs, cell_y, cell_z, xstop, maxdot,
                  energy_total_accum, notKernel >>

\* lines 666-670: the row segment is done
KernelRowEnd ==
  /\ k_pc = "cell"
  /\ cell_x >= xstop
  /\ cell_x' = 0
  /\ IF cell_y + 1 >= mesh.ydim
       THEN cell_y' = 0 /\ cell_z' = cell_z + 1
       ELSE cell_y' = cell_y + 1 /\ UNCHANGED cell_z
  /\ k_pc' = "row"
  /\ UNCHANGED << kernelInputs, kernelOutputs, cell_i, xstop, energy_sum,
                  thread_maxdot, maxdot, energy_total_accum, kernelProbes,
                  notKernel >>

\* lines 673-676: the totals
KernelFinish ==
  /\ k_pc = "row"
  /\ cell_i >= node_stop
  /\ energy_total_accum' = energy_total_accum + energy_sum * Volume(mesh)
  /\ maxdot' = [maxdot EXCEPT ![threadnumber] = thread_maxdot]
  /\ k_pc' = "done"
  /\ UNCHANGED << kernelInputs, kernelOutputs, kernelLocals, kernelProbes,
                  notKernel >>

NextKernel ==
  \/ KernelStart
  \/ KernelRow
  \/ KernelCell
  \/ KernelRowEnd
  \/ KernelFinish

SpecKernel == InitKernel /\ [][NextKernel]_vars

(***************************************************************************)
(* CalcEnergyA on a chain: 3 cells along x, not periodic, one region with  *)
(* coefficient A on every lattice, uniform nonzero Ms, spins +z, +x, +z.   *)
(***************************************************************************)
ChainCoefs == 1 .. 3

ChainMsInverse == {1, 2}

ChainMesh == [xdim |-> 3, ydim |-> 1, zdim |-> 1, xperiodic |-> FALSE,
              yperiodic |-> FALSE, zperiodic |-> FALSE]

ChainSpin == [k \in 0 .. 2 |-> IF k = 1 THEN << 1, 0, 0 >> ELSE << 0, 0, 1 >>]

InitChain ==
  /\ RestIdle
  /\ atlas = [count |-> 1, hole |-> FALSE]
  /\ \E A \in ChainCoefs :
       ConstructedWith(1, [c \in Channels |-> DefaultMatrix(1, A)], "A_TYPE")
  /\ ChunkVarsAre(Size(ChainMesh), << 0, 0, 0 >>)
  /\ mesh = ChainMesh
  /\ spin = ChainSpin
  /\ \E v \in ChainMsInverse : Ms_inverse = [k \in Cells(ChainMesh) |-> v]
  /\ \E a \in Cells(ChainMesh) : \E b \in (a + 1) .. Size(ChainMesh) :
       node_start = a /\ node_stop = b
  /\ energy = [k \in Cells(ChainMesh) |-> Garbage]
  /\ H = [k \in Cells(ChainMesh) |-> << Garbage, Garbage, Garbage >>]
  /\ mxH = [k \in Cells(ChainMesh) |-> << Garbage, Garbage, Garbage >>]
  /\ energy_accum = [k \in Cells(ChainMesh) |-> 0]
  /\ H_accum = [k \in Cells(ChainMesh) |-> Zero3]
  /\ mxH_accum = [k \in Cells(ChainMesh) |-> Zero3]
  /\ contrib = [k \in Cells(ChainMesh) |-> {}]
  /\ lookups = [k \in Cells(ChainMesh) |-> {}]
  /\ lattice_type \in {"LATTICE1", "LATTICE2"}
  /\ ocedt \in OcedtConfigs
  /\ threadnumber = 0
  /\ k_pc = "start"
  /\ cell_i = 0
  /\ cell_x = 0
  /\ cell_y = 0
  /\ cell_z = 0
  /\ xstop = 0
  /\ energy_sum = 0
  /\ thread_maxdot = 0
  /\ maxdot = [t \in Threads |-> 0]
  /\ energy_total_accum = 0

InitEval ==
  /\ atlas = [count |-> 1, hole |-> FALSE]
  /\ InitChunkVars
  /\ Constructed(1)
  /\ KernelIdle
  /\ StepIdle
  /\ DriverIdle
  /\ CalcIdle
  /\ e_pc = "idle"
  /\ e_state = 0
  /\ stage_number \in {f \in [EvalStates -> Stages] :
                        \A s \in EvalStates : s > 1 => f[s - 1] <= f[s]}
  /\ derived = [s \in EvalStates |-> NoData]
  /\ existing = EvalStates
  /\ last_stage_number = -1
  /\ m_e_set = {}
  /\ params_sized = FALSE
  /\ update_runs = 0
  /\ e_error = FALSE

\* the evolver after its constructor, and the driver's initial state, which
\* a checkpoint file may have provided
InitStep ==
  /\ atlas = [count |-> 1, hole |-> FALSE]
  /\ InitChunkVars
  /\ Constructed(1)
  /\ KernelIdle
  /\ EvalIdle
  /\ DriverIdle
  /\ CalcIdle
  /\ ev_cfg \in EvolverConfigs
  /\ ev = [next_timestep |-> << 0, 1 >>, energy_state_id |-> 0,
           dm_dt_id |-> 0, mxH_id |-> 0, iteration_Tcalculated |-> 0]
  /\ \E p \in {0, 9} :
       cstate = [NewState(1) EXCEPT !.previous_state_id = p,
                                    !.stage_iteration_count = p]
  /\ step_calls = 0
  /\ current_attempt_count = 0
  /\ att = NoAttempt
  /\ draws = [k \in 1 .. (MaxIter + 1) |-> 0]

\* line 483 and lines 465-481: the Timestep lower bound Calculate_dm_dt finds
LowerBounds(cfg) ==
  IF cfg.thermal THEN {<< 1, 1 >>} ELSE {<< 1, 2 >>}

Drew(d, k, b) == IF b THEN [d EXCEPT ![k] = @ + 1] ELSE d

\* YY_LLBEulerEvolve::Step, lines 489-789, called from the driver's Run,
\* which takes the new state as its current state after a good step.
\* fill: what FillState and the director hand over as the work state;
\* drv: what FillStateSupplemental does to last_timestep.  The work state's
\* id is written cstate.id + 1, taken or not: an id is compared only with
\* that of the current state.
Step(fill, drv, max_error, energy_fail, mdt, lb, nmdt, nlb) ==
  /\ cstate.iteration_count < MaxIter
  /\ current_attempt_count < MaxAttempts
  /\ \E r \in {IF ev.energy_state_id # cstate.id
              THEN DerivedOutputs(ev, cstate, mdt, lb)
              ELSE [ev |-> ev, st |-> cstate, threw |-> FALSE,
                    drew |-> FALSE]} :
     \E good \in {CacheGood(r.ev, r.st)} :
     \E missing \in {(AllKeys \ r.st.data)
                      \cup (IF r.ev.energy_state_id = cstate.id THEN {}
                            ELSE {"energy"})
                      \cup (IF r.ev.dm_dt_id = cstate.id THEN {}
                            ELSE {"dm_dt"})} :
     \E p \in {Proposal(ev_cfg, r.ev, r.st)} :
     \E last \in {IF Less(p.stepsize, r.st.tlb) THEN r.st.tlb
                  ELSE p.stepsize} :
     \E stepsize \in {CASE drv = "trim" -> Times(last, << 1, 2 >>)
                       [] drv = "raise" -> Times(last, << 2, 1 >>)
                       [] OTHER -> last} :
     \E forcestep \in {p.forcestep \/ Less(p.stepsize, stepsize)} :
     \E nstate \in {[id |-> cstate.id + 1,
                    iteration_count |-> cstate.iteration_count + 1,
                    stage_iteration_count |->
                      cstate.stage_iteration_count + 1,
                    previous_state_id |-> cstate.id, data |-> AllKeys,
                    max_dm_dt |-> nmdt, tlb |-> nlb]} :
     \E c \in {Calculate_dm_dt([r.ev EXCEPT !.mxH_id = cstate.id + 1],
                               nstate)} :
     \E w \in {WorkingAllowedError(ev_cfg, max_error, stepsize,
                                   r.st.max_dm_dt)} :
     \E d \in {Decide(ev_cfg, forcestep, max_error, w, energy_fail)} :
     \E stepped \in {[c.ev EXCEPT !.next_timestep =
                                    Times(d.factor, stepsize)]} :
     \E seen \in {[result |-> "none", fill |-> fill, forcestep |-> forcestep,
                  stepsize |-> stepsize,
                  exceeded |-> Less(w, << max_error, 1 >>),
                  energy_fail |-> energy_fail, missing |-> missing,
                  faults |-> att.faults + (IF fill = "ok" THEN 0 ELSE 1)]} :
     LET early(res) == /\ att' = [NoAttempt EXCEPT !.result = res,
                                                   !.fill = fill,
                                                   !.missing = missing,
                                                   !.faults = seen.faults]
                       /\ step_calls' = 0
                       /\ UNCHANGED current_attempt_count
     IN  CASE fill = "mesh" ->
                /\ early("mesh")
                /\ UNCHANGED << ev, cstate, draws >>
           [] fill = "previous" ->
                /\ early("continuity")
                /\ UNCHANGED << ev, cstate, draws >>
           [] OTHER ->
                IF r.threw \/ ~good
                THEN /\ early(IF r.threw THEN "delta_E" ELSE "cache")
                     /\ ev' = r.ev
                     /\ cstate' = r.st
                     /\ draws' = Drew(draws, cstate.iteration_count + 1,
                                      r.drew)
                ELSE /\ draws' = Drew(Drew(draws, cstate.iteration_count + 1,
                                           r.drew),
                                      cstate.iteration_count + 2, c.drew)
                     /\ IF d.reject
                        THEN /\ ev' = stepped
                             /\ cstate' = r.st
                             /\ att' = [seen EXCEPT !.result = "reject"]
                             /\ step_calls' = (step_calls + 1) % 2
                             /\ current_attempt_count' =
                                  current_attempt_count + 1
                        ELSE IF fill = "preset"
                        THEN /\ ev' = stepped
                             /\ cstate' = r.st
                             /\ att' = [seen EXCEPT !.result = "preset"]
                             /\ step_calls' = 0
                             /\ UNCHANGED current_attempt_count
                        ELSE /\ ev' = [stepped EXCEPT
                                         !.dm_dt_id = cstate.id + 1,
                                         !.energy_state_id = cstate.id + 1]
                             /\ cstate' = nstate
                             /\ att' = [seen EXCEPT !.result = "accept"]
                             /\ step_calls' = 0
                             /\ current_attempt_count' = 0
  /\ UNCHANGED << ev_cfg, notStep >>

\* the values UpdateDerivedOutputs may compute for the current state: they
\* matter only when it does not hold them yet
Computed(values) ==
  IF AllKeys \subseteq cstate.data THEN {CHOOSE v \in values : TRUE}
  ELSE values

\* Step with a work state as a sound driver and director provide it
StepSound ==
  \E drv \in {"keep", "trim", "raise"} : \E max_error \in ErrValues :
    \E energy_fail \in BOOLEAN : \E nmdt \in {1} :
      \E nlb \in LowerBounds(ev_cfg) : \E mdt \in Computed(DmDtValues) :
        \E lb \in Computed(LowerBounds(ev_cfg)) :
          Step("ok", drv, max_error, energy_fail, mdt, lb, nmdt, nlb)

\* Step with a work state of another mesh, of another predecessor, or one
\* that already carries the derived data; MaxFaults of these are followed
StepUnsound ==
  /\ att.faults < MaxFaults
  /\ \E fill \in {"mesh", "previous", "preset"} : \E max_error \in ErrValues :
       \E energy_fail \in BOOLEAN : \E mdt \in Computed(DmDtValues) :
         \E lb \in Computed(LowerBounds(ev_cfg)) :
           Step(fill, "keep", max_error, energy_fail, mdt, lb, mdt, lb)

\* an output of the evolver is requested for the current state between two
\* calls of Run: UpdateDerivedOutputs, lines 900-989
OutputRequest ==
  /\ step_calls = 0
  /\ \E mdt \in DmDtValues : \E lb \in LowerBounds(ev_cfg) :
       LET r == DerivedOutputs(ev, cstate, mdt, lb)
       IN  /\ ev' = r.ev
           /\ cstate' = r.st
           /\ draws' = Drew(draws, cstate.iteration_count + 1, r.drew)
  /\ UNCHANGED << ev_cfg, step_calls, current_attempt_count, att, notStep >>

NextStep == StepSound \/ StepUnsound \/ OutputRequest

SpecStep == InitStep /\ [][NextStep]_vars

\* Run is called again and again, and each Run calls Step
FairSpecStep == SpecStep /\ WF_vars(StepSound)

\* the driver after Init(), lines 331-357: no state (status INVALID), a
\* fresh initial state (STAGE_START), or a state from a checkpoint file with
\* the status recorded in it
InitDriver ==
  /\ atlas = [count |-> 1, hole |-> FALSE]
  /\ InitChunkVars
  /\ Constructed(1)
  /\ KernelIdle
  /\ EvalIdle
  /\ StepIdle
  /\ CalcIdle
  /\ d_cfg \in DriverConfigs
  /\ \/ /\ problem_status = "INVALID"
        /\ dstate = NullState
     \/ /\ problem_status = "STAGE_START"
        /\ dstate = SimState(0, 0, 0, FALSE)
     \/ /\ problem_status \in Statuses
        /\ \E stage \in 0 .. MaxStage : \E iter \in 0 .. 1 :
             dstate = SimState(stage, iter, iter, TRUE)
  /\ d_pc = "idle"
  /\ step_events = 0
  /\ d_step_calls = 0
  /\ d_error = FALSE
  /\ d_last = "none"

\* Run, lines 459-482: the director calls Run; without a current state it
\* throws
RunEnter ==
  /\ d_pc = "idle"
  /\ ~d_error
  /\ IF dstate = NullState
       THEN /\ d_error' = TRUE
            /\ UNCHANGED d_pc
       ELSE /\ d_pc' = "loop"
            /\ UNCHANGED d_error
  /\ step_events' = 0
  /\ d_step_calls' = 0
  /\ d_last' = "none"
  /\ UNCHANGED << d_cfg, problem_status, dstate, notDriver >>

\* lines 596-646: after a step was taken, the new status and its record in
\* the current state; a build without NDEBUG throws when the state already
\* holds a status
StepTaken(st, child_stage, child_run, what) ==
  LET s == IsStageDone(d_cfg, st, child_stage)
      r == IF s.done THEN IsRunDone(d_cfg, s.st, child_stage, child_run)
           ELSE [done |-> FALSE, st |-> s.st]
  IN  /\ step_events' = step_events + 1
      /\ problem_status' = IF ~s.done THEN "INSIDE_STAGE"
                           ELSE IF r.done THEN "DONE" ELSE "STAGE_END"
      /\ dstate' = [r.st EXCEPT !.has_status = TRUE]
      /\ d_last' = what
      /\ IF ~d_cfg.ndebug /\ st.has_status
           THEN d_error' = TRUE /\ d_pc' = "idle"
           ELSE UNCHANGED << d_error, d_pc >>

\* lines 589-593, and an exception that leaves Step: Run ends with it
RunThrow(what) ==
  /\ d_error' = TRUE
  /\ d_pc' = "idle"
  /\ d_last' = what
  /\ UNCHANGED << problem_status, dstate, step_events, d_step_calls >>

\* Run, lines 497-650: one pass of the loop. step: what the child's Step
\* returns or that it throws; stage_increment: the argument of Run;
\* child_stage, child_run: ChildIsStageDone and ChildIsRunDone
RunPass(step, stage_increment, child_stage, child_run) ==
  /\ d_pc = "loop"
  /\ Continue(step_events, d_step_calls, problem_status)
  /\ CASE problem_status = "INSIDE_STAGE" ->
            CASE step = "good" ->
                   /\ dstate.iteration_count < MaxIter
                   /\ d_step_calls' = d_step_calls + 1
                   /\ StepTaken(SimState(dstate.stage_number,
                                         dstate.iteration_count + 1,
                                         dstate.stage_iteration_count + 1,
                                         FALSE),
                                child_stage, child_run, "accepted")
              [] step = "bad" ->
                   /\ d_step_calls' = d_step_calls + 1
                   /\ d_last' = "rejected"
                   /\ UNCHANGED << problem_status, dstate, step_events,
                                   d_error, d_pc >>
              [] OTHER -> RunThrow("threw")
       [] problem_status = "STAGE_END" ->
            /\ dstate.stage_number + stage_increment <= MaxStage + 1
            /\ UNCHANGED d_step_calls
            /\ StepTaken(SimState(dstate.stage_number + stage_increment,
                                  dstate.iteration_count, 0, FALSE),
                         child_stage, child_run, "new_stage")
       [] problem_status = "STAGE_START" ->
            /\ UNCHANGED d_step_calls
            /\ StepTaken(dstate, child_stage, child_run, "stage_start")
       [] OTHER -> RunThrow("invalid")
  /\ UNCHANGED << d_cfg, notDriver >>

\* Run, lines 652-664: the loop is left and the events are reported
RunReturn ==
  /\ d_pc = "loop"
  /\ ~Continue(step_events, d_step_calls, problem_status)
  /\ d_pc' = "idle"
  /\ UNCHANGED << d_cfg, problem_status, dstate, step_events, d_step_calls,
                  d_error, d_last, notDriver >>

NextDriver ==
  \/ RunEnter
  \/ \E step \in {"good", "bad", "throw"} : \E stage_increment \in {0, 1} :
       \E child_stage \in BOOLEAN : \E child_run \in BOOLEAN :
         RunPass(step, stage_increment, child_stage, child_run)
  \/ RunReturn

SpecDriver == InitDriver /\ [][NextDriver]_vars

(***************************************************************************)
(* The end of ComputeEnergyChunk, lines 998-1002, on a module constructed  *)
(* from A or from lex coefficients, with a valid region map.               *)
(***************************************************************************)
InitDispatch ==
  /\ RestIdle
  /\ atlas = [count |-> 1, hole |-> FALSE]
  /\ \E A \in ChainCoefs : \E type \in {"A_TYPE", "LEX_TYPE"} :
       ConstructedWith(1, [c \in Channels |-> DefaultMatrix(1, A)], type)
  /\ ChunkVarsAre(Size(ChainMesh), << 0, 0, 0 >>)
  /\ mesh = ChainMesh
  /\ spin = ChainSpin
  /\ \E v \in ChainMsInverse : Ms_inverse = [k \in Cells(ChainMesh) |-> v]
  /\ \E a \in Cells(ChainMesh) : \E b \in (a + 1) .. Size(ChainMesh) :
       node_start = a /\ node_stop = b
  /\ energy = [k \in Cells(ChainMesh) |-> Garbage]
  /\ H = [k \in Cells(ChainMesh) |-> << Garbage, Garbage, Garbage >>]
  /\ mxH = [k \in Cells(ChainMesh) |-> << Garbage, Garbage, Garbage >>]
  /\ energy_accum = [k \in Cells(ChainMesh) |-> 0]
  /\ H_accum = [k \in Cells(ChainMesh) |-> Zero3]
  /\ mxH_accum = [k \in Cells(ChainMesh) |-> Zero3]
  /\ contrib = [k \in Cells(ChainMesh) |-> {}]
  /\ lookups = [k \in Cells(ChainMesh) |-> {}]
  /\ lattice_type \in {"LATTICE1", "LATTICE2"}
  /\ ocedt \in OcedtConfigs
  /\ threadnumber = 0
  /\ k_pc = "dispatch"
  /\ cell_i = 0
  /\ cell_x = 0
  /\ cell_y = 0
  /\ cell_z = 0
  /\ xstop = 0
  /\ energy_sum = 0
  /\ thread_maxdot = 0
  /\ maxdot = [t \in Threads |-> 0]
  /\ energy_total_accum = 0

\* lines 998-1002: the call of CalcEnergyLex is commented out
Dispatch ==
  /\ k_pc = "dispatch"
  /\ k_pc' = IF excoeftype = "LEX_TYPE" THEN "returned" ELSE "start"
  /\ UNCHANGED << kernelInputs, kernelOutputs, kernelLocals, maxdot,
                  energy_total_accum, kernelProbes, notKernel >>

NextDispatch == Dispatch \/ NextKernel

SpecDispatch == InitDispatch /\ [][NextDispatch]_vars

(***************************************************************************)
(* One evaluation of a whole mesh: ComputeEnergyChunkInitialize resets     *)
(* maxdot, then the mesh is handed out as consecutive ranges, each to some *)
(* thread, and CalcEnergyA runs on each range.  A call reads only inputs   *)
(* no call writes, and writes the output cells of its own range and the    *)
(* maxdot slot of its own thread, so the calls are taken one after the     *)
(* other.                                                                  *)
(***************************************************************************)
\* meshes that are periodic along every axis or along none
SweepMeshes ==
  {m \in [xdim : 1 .. MaxSweepCells, ydim : 1 .. MaxSweepCells,
          zdim : 1 .. MaxSweepCells,
          xperiodic : BOOLEAN, yperiodic : BOOLEAN, zperiodic : BOOLEAN] :
     /\ m.xdim * m.ydim * m.zdim <= MaxSweepCells
     /\ m.xperiodic = m.yperiodic
     /\ m.yperiodic = m.zperiodic}

\* spins whose differences between cells have squared lengths 0, 2 and 4
SweepSpins(m) ==
  { [k \in Cells(m) |-> CASE k % 4 = 0 -> << 1, 0, 0 >>
                          [] k % 4 = 1 -> << 0, 1, 0 >>
                          [] k % 4 = 2 -> << -1, 0, 0 >>
                          [] OTHER     -> << 1, 0, 0 >>],
    [k \in Cells(m) |-> CASE k % 4 = 0 -> << 1, 0, 0 >>
                          [] k % 4 = 1 -> << -1, 0, 0 >>
                          [] k % 4 = 2 -> << 0, 1, 0 >>
                          [] OTHER     -> << 0, 1, 0 >>] }

\* Ms nonzero everywhere, or zero in one cell
SweepMsInverse(m) ==
  { [k \in Cells(m) |-> IF k = h THEN 0 ELSE 1] : h \in -1 .. (Size(m) - 1) }

InitSweep ==
  /\ RestIdle
  /\ atlas = [count |-> 2, hole |-> FALSE]
  /\ ConstructedWith(2, KernelCoef, "A_TYPE")
  /\ \E m \in SweepMeshes :
       /\ mesh = m
       /\ \E rid \in RegionPatterns(m) : ChunkVarsAre(Size(m), rid)
       /\ spin \in SweepSpins(m)
       /\ Ms_inverse \in SweepMsInverse(m)
       /\ energy = [k \in Cells(m) |-> Garbage]
       /\ H = [k \in Cells(m) |-> << Garbage, Garbage, Garbage >>]
       /\ mxH = [k \in Cells(m) |-> << Garbage, Garbage, Garbage >>]
       /\ energy_accum = [k \in Cells(m) |-> 0]
       /\ H_accum = [k \in Cells(m) |-> Zero3]
       /\ mxH_accum = [k \in Cells(m) |-> Zero3]
       /\ contrib = [k \in Cells(m) |-> {}]
       /\ lookups = [k \in Cells(m) |-> {}]
  /\ lattice_type = "LATTICE1"
  /\ ocedt \in OcedtConfigs
  /\ node_start = 0
  /\ node_stop = 0
  /\ threadnumber = 0
  /\ k_pc = "initialize"
  /\ cell_i = 0
  /\ cell_x = 0
  /\ cell_y = 0
  /\ cell_z = 0
  /\ xstop = 0
  /\ energy_sum = 0
  /\ thread_maxdot = 0
  /\ \E stale \in {0, 4} : maxdot = [t \in Threads |-> stale]
  /\ energy_total_accum = 0

\* a reset that leaves the values of the evaluation before
ResetMaxdot_Keep(old, number_of_threads) ==
  [t \in 0 .. (number_of_threads - 1) |-> old[t]]

\* lines 739-744
ResetMaxdot(old, number_of_threads) ==
  [t \in 0 .. (number_of_threads - 1) |-> 0]

\* ComputeEnergyChunkInitialize as far as maxdot goes, lines 739-744
SweepInitialize ==
  /\ k_pc = "initialize"
  /\ maxdot' = ResetMaxdot(maxdot, NThreads)
  /\ k_pc' = "handout"
  /\ UNCHANGED << kernelInputs, kernelOutputs, kernelLocals,
                  energy_total_accum, kernelProbes, notKernel >>

\* the next range [node_start, node_stop) goes to some thread; a range may
\* be empty and may start and end inside a row
SweepChunk ==
  /\ k_pc \in {"handout", "done"}
  /\ \E b \in node_stop .. Size(mesh) : \E t \in Threads :
       /\ node_start' = node_stop
       /\ node_stop' = b
       /\ threadnumber' = t
  /\ k_pc' = "start"
  /\ UNCHANGED << lattice_type, mesh, spin, Ms_inverse, ocedt, kernelOutputs,
                  kernelLocals, maxdot, energy_total_accum, kernelProbes,
                  notKernel >>

NextSweep == SweepInitialize \/ SweepChunk \/ NextKernel

SpecSweep == InitSweep /\ [][NextSweep]_vars

(***************************************************************************)
(* YY_LLBEulerEvolve::Calculate_dm_dt and Init.  Fields are uniform, so a  *)
(* per-cell array of the evolver is its size and one value; the thermal    *)
(* fields and the derivatives are kept cell by cell.  Units: kB/(MU0*V)    *)
(* and fixed_timestep are 1.  Ms0 and the statistics dE_dt_ and            *)
(* min_timestep_ are left out.                                             *)
(***************************************************************************)
\* meshes 2 and 3 have the same size
DerivMeshes ==
  {[id |-> 1, size |-> 1], [id |-> 2, size |-> 2], [id |-> 3, size |-> 2]}

DerivConfigs ==
  [alpha_t0 : {0, 1}, gamma0 : {0, 2}, temperature : {0, 2},
   do_precess : BOOLEAN, ito_calculus : BOOLEAN]

DerivCells(m) == 0 .. (m.size - 1)

DerivSpin(i) == IF i = 0 THEN << 0, 0, 1 >> ELSE << 1, 0, 0 >>

DerivFields == {<< 0, 0, 0 >>, << 1, 1, 1 >>}

\* Gaussian_Random(0, 1) for the three components
GaussDraws == {<< 1, 0, 0 >>, << 0, 1, 1 >>}

Cross(a, b) == << a[2] * b[3] - a[3] * b[2],
                  a[3] * b[1] - a[1] * b[3],
                  a[1] * b[2] - a[2] * b[1] >>

Dot(a, b) == a[1] * b[1] + a[2] * b[2] + a[3] * b[3]

\* sqrt, rounded down to the unit
ISqrt(n) == CHOOSE k \in 0 .. n : k * k <= n /\ (k + 1) * (k + 1) > n

\* UpdateMeshArrays, lines 791-822, for gamma_LL: alpha_l is set to 0
UpdateMeshArrays(cfg) ==
  [alpha_t |-> cfg.alpha_t0, alpha_l |-> 0,
   gamma |-> IF cfg.gamma0 < 0 THEN -cfg.gamma0 ELSE cfg.gamma0]

\* a double that is a NaN or an infinity; every sum and product with it is
\* one again, and every comparison with it is taken as false
NonFinite == -7

NonFinite3 == << NonFinite, NonFinite, NonFinite >>

\* FillHFluctConst, lines 837-843: hFluctVarConst for one damping constant;
\* the division by MU0*cell_gamma*Volume is 0/0 or x/0 at gamma 0
VarConst(alpha, gamma, temperature) ==
  IF gamma = 0 THEN NonFinite
  ELSE ((2 * alpha * temperature) \div (1 + alpha * alpha)) \div gamma

\* FillHFluctConst, lines 846-849: inducedDriftConst
DriftConst(v, alpha, gamma) ==
  IF v = NonFinite THEN NonFinite
  ELSE -(v * gamma * gamma * (1 + alpha * alpha))

\* lines 352-364: hFluctSigma times the three draws
ThermalDraw(v, msi, g) ==
  IF v = NonFinite THEN NonFinite3 ELSE VScale(ISqrt(v * msi), g)

\* lines 371-427: the derivatives of cell i
CellDerivative(t, cfg, i, field, msi) ==
  IF msi = 0 THEN [t |-> Zero3, l |-> Zero3]
  ELSE LET spin_i == DerivSpin(i)
           bad_t == \/ t.hFluct_t[i] = NonFinite3
                    \/ ~cfg.ito_calculus /\ t.hFluctVarConst_t = NonFinite
           bad_l == \/ t.hFluct_l[i] = NonFinite3
                    \/ ~cfg.ito_calculus /\ t.hFluctVarConst_l = NonFinite
           mxH_i == Cross(spin_i, field)
           scratch == VAdd(VScale(-t.gamma, mxH_i),
                           VScale(-t.gamma, Cross(spin_i, t.hFluct_t[i])))
           precess == IF cfg.do_precess THEN scratch ELSE Zero3
           damping == VScale(-t.alpha_t, Cross(scratch, spin_i))
           drift_t == IF cfg.ito_calculus THEN Zero3
                      ELSE VScale(DriftConst(t.hFluctVarConst_t, t.alpha_t,
                                             t.gamma) * msi, spin_i)
           temp == Dot(spin_i, VAdd(field, t.hFluct_l[i]))
                     * t.gamma * t.alpha_l
           drift_l == IF cfg.ito_calculus THEN Zero3
                      ELSE VScale(DriftConst(t.hFluctVarConst_l, t.alpha_l,
                                             t.gamma) * msi, spin_i)
       IN  [t |-> IF bad_t THEN NonFinite3
                  ELSE VAdd(VAdd(precess, damping), drift_t),
            l |-> IF bad_l THEN NonFinite3
                  ELSE VAdd(VScale(temp, spin_i), drift_l)]

\* lines 432-437: Zero dm_dt at fixed spin sites
ZeroFixed(d, fixed) ==
  [i \in DOMAIN d |-> IF i \in fixed THEN Zero3 ELSE d[i]]

InitDeriv ==
  /\ atlas = [count |-> 1, hole |-> FALSE]
  /\ InitChunkVars
  /\ Constructed(1)
  /\ KernelIdle
  /\ EvalIdle
  /\ StepIdle
  /\ DriverIdle
  /\ SolveIdle
  /\ \E cfg \in DerivConfigs : \E m \in DerivMeshes :
       /\ tm = [mesh_id |-> 0, arrays_size |-> 0, alpha_t |-> 0,
                alpha_l |-> 0, gamma |-> 0, hFluctVarConst_t |-> 0,
                hFluctVarConst_l |-> 0, hFluct_size |-> 0,
                hFluct_t |-> << >>, hFluct_l |-> << >>,
                iteration_Tcalculated |-> 0]
       /\ prob = [mesh |-> m, iteration_count |-> 0,
                  alpha_t0 |-> cfg.alpha_t0, gamma0 |-> cfg.gamma0,
                  temperature |-> cfg.temperature,
                  do_precess |-> cfg.do_precess,
                  ito_calculus |-> cfg.ito_calculus]
       /\ dout = [called |-> FALSE, need |-> FALSE, drew |-> FALSE,
                  fixed |-> {}, Ms_inverse |-> << >>,
                  field |-> << 0, 0, 0 >>, dm_dt_t |-> << >>,
                  dm_dt_l |-> << >>, max_dm_dt_sq |-> 0]

\* Calculate_dm_dt, lines 276-486, for a state of the problem's mesh with
\* iteration count ic, field `field` in every cell, Ms_inverse msi, fixed
\* spins `fixed`; g is what Gaussian_Random returns if it is called
CalculateCall(ic, field, msi, fixed, g) ==
  \E m \in {prob.mesh} : \E cells \in {DerivCells(prob.mesh)} :
  \E iteration_now \in {ic + 1} : \E a \in {UpdateMeshArrays(prob)} :
  \* lines 309-324
  \E t1 \in {IF tm.mesh_id # m.id \/ tm.arrays_size # m.size
             THEN [tm EXCEPT
                     !.mesh_id = m.id, !.arrays_size = m.size,
                     !.alpha_t = a.alpha_t, !.alpha_l = a.alpha_l,
                     !.gamma = a.gamma,
                     !.hFluctVarConst_t =
                        VarConst(a.alpha_t, a.gamma, prob.temperature),
                     !.hFluctVarConst_l =
                        VarConst(a.alpha_l, a.gamma, prob.temperature),
                     !.hFluct_size = m.size,
                     !.hFluct_t = [i \in cells |-> Zero3],
                     !.hFluct_l = [i \in cells |-> Zero3]]
             ELSE tm} :
  \* lines 334-338
  \E t2 \in {IF t1.hFluct_size # m.size
             THEN [t1 EXCEPT
                     !.hFluct_size = m.size,
                     !.hFluct_t = [i \in cells |->
                                     << Garbage, Garbage, Garbage >>],
                     !.hFluct_l = [i \in cells |->
                                     << Garbage, Garbage, Garbage >>],
                     !.iteration_Tcalculated = 0]
             ELSE t1} :
  \* lines 343-366
  \E regenerate \in {iteration_now > t2.iteration_Tcalculated} :
  \E t3 \in {IF regenerate
             THEN [t2 EXCEPT
                     !.hFluct_t = [i \in cells |->
                        IF msi[i] # 0
                        THEN ThermalDraw(t2.hFluctVarConst_t, msi[i], g)
                        ELSE t2.hFluct_t[i]],
                     !.hFluct_l = [i \in cells |->
                        IF msi[i] # 0
                        THEN ThermalDraw(t2.hFluctVarConst_l, msi[i], g)
                        ELSE t2.hFluct_l[i]]]
             ELSE t2} :
  \* lines 368-427
  \E d \in {[i \in cells |-> CellDerivative(t3, prob, i, field, msi[i])]} :
  \* lines 432-437
  \E dt \in {ZeroFixed([i \in cells |-> d[i].t], fixed)} :
  \* lines 440-453
  \E sq \in {{0} \cup {MagSq(dt[i]) + MagSq(d[i].l) :
                         i \in {j \in cells : /\ dt[j] # NonFinite3
                                              /\ d[j].l # NonFinite3}}} :
    /\ tm' = [t3 EXCEPT !.iteration_Tcalculated = iteration_now]
    /\ prob' = [prob EXCEPT !.iteration_count = ic]
    /\ dout' = [called |-> TRUE,
                need |-> tm.mesh_id # m.id \/ tm.hFluct_size # m.size,
                drew |-> regenerate, fixed |-> fixed, Ms_inverse |-> msi,
                field |-> field, dm_dt_t |-> dt,
                dm_dt_l |-> [i \in cells |-> d[i].l],
                max_dm_dt_sq |-> CHOOSE v \in sq : \A w \in sq : w <= v]
    /\ UNCHANGED << sol, notCalc >>

\* the driver and Step call Calculate_dm_dt for the current state and for
\* the trial state that follows it
DerivCall ==
  \E ic \in {prob.iteration_count, prob.iteration_count + 1} :
    \E field \in DerivFields : \E g \in GaussDraws :
      \E msi \in {[i \in DerivCells(prob.mesh) |-> 1],
                  [i \in DerivCells(prob.mesh) |-> IF i = 0 THEN 0 ELSE 1]} :
        \E fixed \in {{}, {0}, DerivCells(prob.mesh)} :
          /\ ic <= MaxIter
          /\ CalculateCall(ic, field, msi, fixed, g)

\* Init(), lines 221-271, and the problem that is run next: the per-cell
\* arrays are released; mesh_id and iteration_Tcalculated are not touched
EvolverInit ==
  /\ dout.called
  /\ tm' = [tm EXCEPT !.arrays_size = 0, !.hFluct_size = 0,
                      !.hFluct_t = << >>, !.hFluct_l = << >>]
  /\ \E m \in DerivMeshes :
       prob' = [prob EXCEPT !.mesh = m, !.iteration_count = 0]
  /\ dout' = [dout EXCEPT !.called = FALSE]
  /\ UNCHANGED << sol, notCalc >>

NextDeriv == DerivCall \/ EvolverInit

SpecDeriv == InitDeriv /\ [][NextDeriv]_vars

(***************************************************************************)
(* The equilibrium solver: YY_LLBEulerEvolve::Calculate_m_e, which is also *)
(* the loop body of YY_2LatExchange6Ngbr::Update_m_e_chi_l for one cell of *)
(* one sublattice (chi_l is left out).  Numbers are exact fractions        *)
(* << numerator, denominator >> with a positive denominator, kB is 1.  In  *)
(* the ordered regime the inputs have 1/A >= 10, where coth(x) is 1 and    *)
(* 1/sinh(x)^2 is 0 to within 1e-8, far below the tolerance.               *)
(***************************************************************************)
\* exp(2*x) is +infinity in double precision when 2*x exceeds this
ExpOverflow == 709

\* what (inf + 1)/(inf - 1) gives
NaN == << 0, 0 >>

Minus(a, b) == Frac(a[1] * b[2] - b[1] * a[2], a[2] * b[2])

Quot(a, b) ==
  IF b[1] < 0 THEN Frac(-(a[1] * b[2]), a[2] * (-b[1]))
  ELSE Frac(a[1] * b[2], a[2] * b[1])

Abs(a) == IF a[1] < 0 THEN << -a[1], a[2] >> ELSE a

\* Langevin(x), lines 887-892: (exp(2x)+1)/(exp(2x)-1) - 1/x
Langevin(x) ==
  IF Less(<< ExpOverflow, 1 >>, Times(<< 2, 1 >>, x)) THEN NaN
  ELSE Minus(<< 1, 1 >>, Quot(<< 1, 1 >>, x))

\* LangevinDeriv(x), lines 894-898: -1/sinh(x)^2 + 1/x^2
LangevinDeriv(x) == Quot(<< 1, 1 >>, Times(x, x))

\* y = Langevin(x) - A*x, lines 877 and 881
Residual(A, x) ==
  IF Langevin(x) = NaN THEN NaN ELSE Minus(Langevin(x), Times(A, x))

\* fabs(y) > tol, line 879: false when y is not a number
Exceeds(y, tol) == y # NaN /\ Less(tol, Abs(y))

\* line 872: A <= 0 || A >= 1./3.
OutOfRegime(J, T) ==
  IF J < 0 THEN T >= 0 \/ 3 * (-T) >= -J
  ELSE T <= 0 \/ 3 * T >= J

SolveJs == {-1200, 1200, 2400}

SolveTemps == {0, 1, 3, 4, 12, 60, 120, 400, 500, 800, 1000}

SolveTols == {<< 1, 10000 >>, << -1, 10000 >>}

\* J and T out of the ordered regime, or with 1/A >= 10
SolveInputs ==
  {jt \in SolveJs \X SolveTemps :
     OutOfRegime(jt[1], jt[2]) \/ 10 * jt[2] <= jt[1]}

InitSolve ==
  /\ atlas = [count |-> 1, hole |-> FALSE]
  /\ InitChunkVars
  /\ Constructed(1)
  /\ KernelIdle
  /\ EvalIdle
  /\ StepIdle
  /\ DriverIdle
  /\ DerivIdle
  /\ \E jt \in SolveInputs : \E tol_in \in SolveTols :
       sol = [pc |-> "start", J |-> jt[1], T |-> jt[2], tol_in |-> tol_in,
              tol |-> << 0, 1 >>, x |-> << 0, 1 >>, y |-> << 0, 1 >>,
              iterations |-> 0, m_e |-> << 0, 1 >>]

\* lines 871-878
SolveStart ==
  /\ sol.pc = "start"
  /\ sol' = IF OutOfRegime(sol.J, sol.T)
            THEN [sol EXCEPT !.pc = "done", !.m_e = << 0, 1 >>]
            ELSE [sol EXCEPT !.pc = "loop",
                             !.tol = Abs(sol.tol_in),
                             !.x = Frac(sol.J, sol.T),
                             !.y = Residual(Frac(sol.T, sol.J),
                                            Frac(sol.J, sol.T))]
  /\ UNCHANGED << tm, prob, dout, notCalc >>

\* lines 879-883: one pass of the Newton loop; dy is the value computed at
\* the end of the pass before (or at line 878)
SolveIterate ==
  /\ sol.pc = "loop"
  /\ Exceeds(sol.y, sol.tol)
  /\ \E A \in {Frac(sol.T, sol.J)} :
     \E dy \in {Minus(LangevinDeriv(sol.x), A)} :
     \E x \in {Minus(sol.x, Quot(sol.y, dy))} :
       sol' = [sol EXCEPT !.x = x, !.y = Residual(A, x),
                          !.iterations = @ + 1]
  /\ UNCHANGED << tm, prob, dout, notCalc >>

\* line 884: return A*x
SolveReturn ==
  /\ sol.pc = "loop"
  /\ ~Exceeds(sol.y, sol.tol)
  /\ sol' = [sol EXCEPT !.pc = "done",
                        !.m_e = Times(Frac(sol.T, sol.J), sol.x)]
  /\ UNCHANGED << tm, prob, dout, notCalc >>

NextSolve == SolveStart \/ SolveIterate \/ SolveReturn

SpecSolve == InitSolve /\ [][NextSolve]_vars

SpecEval == InitEval /\ [][NextEval]_vars

SpecChain == InitChain /\ [][NextKernel]_vars

InitChunk ==
  /\ RestIdle
  /\ atlas \in AtlasConfigs
  /\ InitChunkVars
  /\ Constructed(GetRegionCount(atlas))
  /\ KernelIdle

(***************************************************************************)
(* Environment: the framework launches an evaluation on all threads, the   *)
(* atlas changes state, the director re-initialises the module.            *)
(***************************************************************************)
StartEval(m) ==
  /\ AllJoined
  /\ ~thread_error
  /\ state_mesh' = m
  /\ pc' = [t \in Threads |-> "chk"]
  /\ rebuilds' = 0
  /\ writers' = {}
  /\ ran' = FALSE
  /\ failed' = FALSE
  /\ eval_stale' = (mesh_id # m \/ ~atlaskey)
  /\ UNCHANGED << cacheVars, atlas, syncVars, condcheckerror,
                  fill_i, map_for, notChunk >>

AtlasChange(a) ==
  /\ AllJoined
  /\ ~thread_error
  /\ atlas' = a
  /\ atlaskey' = FALSE
  /\ map_for' = << map_for[1], FALSE >>
  /\ UNCHANGED << mesh_id, region_id, state_mesh, syncVars, localVars,
                  rebuilds, writers, ran, failed, eval_stale, notChunk >>

\* YY_2LatExchange6Ngbr::Init()
ModuleInit ==
  /\ AllJoined
  /\ ~thread_error
  /\ mesh_id # 0
  /\ mesh_id' = 0
  /\ region_id' = << >>
  /\ map_for' = << 0, FALSE >>
  /\ UNCHANGED << atlaskey, envVars, syncVars, localVars, rebuilds, writers,
                  ran, failed, eval_stale, notChunk >>

(***************************************************************************)
(* ComputeEnergyChunk, thread t.                                           *)
(***************************************************************************)
\* line 868, first operand: mesh_id != state.mesh->Id()
CheckMesh(t) ==
  /\ pc[t] = "chk"
  /\ pc' = [pc EXCEPT ![t] =
              IF MeshMismatch(mesh_id, state_mesh) THEN "lock" ELSE "chk_key"]
  /\ UNCHANGED << cacheVars, envVars, syncVars, condcheckerror, fill_i,
                  probeVars, notChunk >>

\* line 868, second operand: !atlaskey.SameState()
CheckKey(t) ==
  /\ pc[t] = "chk_key"
  /\ pc' = [pc EXCEPT ![t] =
              IF ~SameState(atlaskey) THEN "lock" ELSE "kernel"]
  /\ UNCHANGED << cacheVars, envVars, syncVars, condcheckerror, fill_i,
                  probeVars, notChunk >>

\* lines 875-883: Lock(); the error flag is set: release a waiter, return
LockError(t) ==
  /\ pc[t] = "lock"
  /\ mutex = NoThread
  /\ thread_error
  /\ \E w \in NotifyTargets(count, Blocked) : signalled' = Signal(w)
  /\ \E p \in AfterReturn : pc' = [pc EXCEPT ![t] = p]
  /\ UNCHANGED << cacheVars, envVars, thread_error, mutex, count,
                  condcheckerror, fill_i, probeVars, notChunk >>

\* lines 884-898: a worker finds the map stale and blocks in Wait
LockWait(t) ==
  /\ pc[t] = "lock"
  /\ mutex = NoThread
  /\ ~thread_error
  /\ ~IsMainThread(t)
  /\ NeedRebuild(mesh_id, state_mesh, atlaskey)
  /\ count' = count + 1
  /\ pc' = [pc EXCEPT ![t] = "wait"]
  /\ signalled' = [signalled EXCEPT ![t] = FALSE]
  /\ UNCHANGED << cacheVars, envVars, thread_error, mutex, condcheckerror,
                  fill_i, probeVars, notChunk >>

\* lines 916-928: a worker finds the map already rebuilt
LockNeverMind(t) ==
  /\ pc[t] = "lock"
  /\ mutex = NoThread
  /\ ~thread_error
  /\ ~IsMainThread(t)
  /\ ~NeedRebuild(mesh_id, state_mesh, atlaskey)
  /\ \E w \in NotifyTargets(count, Blocked) : signalled' = Signal(w)
  /\ pc' = [pc EXCEPT ![t] = "kernel"]
  /\ UNCHANGED << cacheVars, envVars, thread_error, mutex, count,
                  condcheckerror, fill_i, probeVars, notChunk >>

\* lines 898-912: a released waiter re-acquires the mutex, re-checks the
\* condition, releases the next waiter and unlocks
Wake(t) ==
  /\ pc[t] = "wait"
  /\ signalled[t]
  /\ mutex = NoThread
  /\ count' = count - 1
  /\ condcheckerror' = [condcheckerror EXCEPT ![t] =
        CondCheckError(mesh_id, state_mesh, atlaskey)]
  /\ \E w \in NotifyTargets(count - 1, Blocked) :
       signalled' = [Signal(w) EXCEPT ![t] = FALSE]
  /\ pc' = [pc EXCEPT ![t] = "postwait"]
  /\ UNCHANGED << cacheVars, envVars, thread_error, mutex, fill_i,
                  probeVars, notChunk >>

\* lines 913-915
PostWait(t) ==
  /\ pc[t] = "postwait"
  /\ IF condcheckerror[t] \/ thread_error
       THEN \E p \in AfterReturn : pc' = [pc EXCEPT ![t] = p]
       ELSE pc' = [pc EXCEPT ![t] = "kernel"]
  /\ condcheckerror' = [condcheckerror EXCEPT ![t] = FALSE]
  /\ UNCHANGED << cacheVars, envVars, syncVars, fill_i, probeVars,
                  notChunk >>

\* Oxs_ThreadControl::Wait: a condition wait may return without a Notify
SpuriousWake(t) ==
  /\ pc[t] = "wait"
  /\ ~signalled[t]
  /\ signalled' = [signalled EXCEPT ![t] = TRUE]
  /\ UNCHANGED << cacheVars, envVars, thread_error, mutex, count, localVars,
                  probeVars, notChunk >>

\* lines 929-932: the main thread keeps the mutex and starts the rebuild
\* with region_id.AdjustSize(state.mesh)
LockRebuild(t) ==
  /\ pc[t] = "lock"
  /\ mutex = NoThread
  /\ ~thread_error
  /\ IsMainThread(t)
  /\ mutex' = t
  /\ region_id' = IF Len(region_id) = MeshSize(state_mesh)
                    THEN region_id
                    ELSE [i \in 1 .. MeshSize(state_mesh) |-> Garbage]
  /\ fill_i' = 0
  /\ rebuilds' = rebuilds + 1
  /\ writers' = writers \cup {t}
  /\ map_for' = << 0, FALSE >>
  /\ pc' = [pc EXCEPT ![t] = "fill"]
  /\ UNCHANGED << mesh_id, atlaskey, envVars, thread_error, count, signalled,
                  condcheckerror, ran, failed, eval_stale, notChunk >>

\* lines 934-944: one iteration of the fill loop (the id is stored, then
\* tested), or the exit of the loop
FillCell(t) ==
  /\ pc[t] = "fill"
  /\ mutex = t
  /\ IF fill_i < MeshSize(state_mesh)
       THEN /\ region_id' = [region_id EXCEPT ![fill_i + 1] =
                                GetRegionIdAt(atlas, fill_i)]
            /\ writers' = writers \cup {t}
            /\ IF GetRegionIdAt(atlas, fill_i) < 0
                 THEN /\ pc' = [pc EXCEPT ![t] = "catch"]
                      /\ failed' = TRUE
                      /\ fill_i' = 0
                 ELSE /\ fill_i' = fill_i + 1
                      /\ UNCHANGED << pc, failed >>
            /\ UNCHANGED map_for
       ELSE /\ pc' = [pc EXCEPT ![t] = "setkey"]
            /\ fill_i' = 0
            /\ map_for' = << state_mesh, TRUE >>
            /\ UNCHANGED << region_id, failed, writers >>
  /\ UNCHANGED << mesh_id, atlaskey, envVars, syncVars, condcheckerror,
                  rebuilds, ran, eval_stale, notChunk >>

\* line 945: atlaskey.Set(atlas.GetPtr())
SetKey(t) ==
  /\ pc[t] = "setkey"
  /\ atlaskey' = TRUE
  /\ writers' = writers \cup {t}
  /\ pc' = [pc EXCEPT ![t] = "setmesh"]
  /\ UNCHANGED << mesh_id, region_id, envVars, syncVars, condcheckerror,
                  fill_i, rebuilds, ran, failed, map_for, eval_stale,
                  notChunk >>

\* line 946: mesh_id = state.mesh->Id()
SetMesh(t) ==
  /\ pc[t] = "setmesh"
  /\ mesh_id' = state_mesh
  /\ writers' = writers \cup {t}
  /\ pc' = [pc EXCEPT ![t] = "release"]
  /\ UNCHANGED << atlaskey, region_id, envVars, syncVars, condcheckerror,
                  fill_i, rebuilds, ran, failed, map_for, eval_stale,
                  notChunk >>

\* lines 985-995: the main thread releases one waiter and unlocks
Release(t) ==
  /\ pc[t] = "release"
  /\ mutex = t
  /\ \E w \in NotifyTargets(count, Blocked) : signalled' = Signal(w)
  /\ mutex' = NoThread
  /\ pc' = [pc EXCEPT ![t] = "kernel"]
  /\ UNCHANGED << cacheVars, envVars, thread_error, count, condcheckerror,
                  fill_i, probeVars, notChunk >>

\* lines 947-950 (and the three other catch clauses): SetError
Catch(t) ==
  /\ pc[t] = "catch"
  /\ thread_error' = (thread_error \/ SetError)
  /\ pc' = [pc EXCEPT ![t] = "catch_release"]
  /\ UNCHANGED << cacheVars, envVars, mutex, count, signalled,
                  condcheckerror, fill_i, probeVars, notChunk >>

\* lines 951-955: Notify, Unlock, throw
CatchRelease(t) ==
  /\ pc[t] = "catch_release"
  /\ mutex = t
  /\ \E w \in NotifyTargets(count, Blocked) : signalled' = Signal(w)
  /\ mutex' = NoThread
  /\ pc' = [pc EXCEPT ![t] = "thrown"]
  /\ UNCHANGED << cacheVars, envVars, thread_error, count, condcheckerror,
                  fill_i, probeVars, notChunk >>

\* lines 998-1002: the kernel runs on the chunk, then the call returns
Kernel(t) ==
  /\ pc[t] = "kernel"
  /\ ran' = TRUE
  /\ \E p \in AfterReturn : pc' = [pc EXCEPT ![t] = p]
  /\ UNCHANGED << cacheVars, envVars, syncVars, condcheckerror, fill_i,
                  rebuilds, writers, failed, map_for, eval_stale, notChunk >>

ThreadStep(t) ==
  \/ CheckMesh(t)
  \/ CheckKey(t)
  \/ LockError(t)
  \/ LockWait(t)
  \/ LockNeverMind(t)
  \/ Wake(t)
  \/ PostWait(t)
  \/ LockRebuild(t)
  \/ FillCell(t)
  \/ SetKey(t)
  \/ SetMesh(t)
  \/ Release(t)
  \/ Catch(t)
  \/ CatchRelease(t)
  \/ Kernel(t)

NextChunk ==
  \/ \E m \in MeshIds : StartEval(m)
  \/ \E a \in AtlasConfigs : AtlasChange(a)
  \/ ModuleInit
  \/ \E t \in Threads : ThreadStep(t)
  \/ \E t \in Threads : SpuriousWake(t)

SpecChunk == InitChunk /\ [][NextChunk]_vars

FairSpecChunk == SpecChunk /\ \A t \in Threads : WF_vars(ThreadStep(t))

(***************************************************************************)
(* Properties of the region-map rebuild.                                   *)
(***************************************************************************)
MapCurrent == mesh_id = state_mesh /\ atlaskey

\* C1: in an evaluation that finds the region map stale the map is rebuilt
\* exactly once and only by thread 0: no other thread writes region_id,
\* mesh_id or atlaskey, thread 0 never rebuilds twice in one evaluation, and
\* when all threads have left the evaluation one rebuild has taken place.
C1_RebuildOnceByThread0 ==
  /\ writers \subseteq {0}
  /\ rebuilds <= 1
  /\ (AllJoined /\ eval_stale) => rebuilds = 1

C1_Witness ==
  /\ eval_stale
  /\ rebuilds = 1
  /\ pc[0] = "idle"
  /\ \E t \in Threads \ {0} : pc[t] = "wait"

\* C2: a thread is in the kernel CalcEnergyA only when region_id holds the
\* completely written map of the current mesh id and atlas state: the map
\* is not stale and thread 0 is not in the fill loop.
C2_KernelAfterRebuild ==
  \A t \in Threads :
    pc[t] = "kernel" =>
      /\ mesh_id = state_mesh
      /\ atlaskey
      /\ map_for = << state_mesh, TRUE >>
      /\ pc[0] # "fill"
      /\ Len(region_id) = state_mesh
      /\ \A i \in 1 .. Len(region_id) : region_id[i] # Garbage

C2_Witness ==
  /\ eval_stale
  /\ rebuilds = 1
  /\ pc[0] = "release"
  /\ \E t \in Threads \ {0} : pc[t] = "kernel"

\* C3: once thread 0 has finished or failed the rebuild and released the
\* mutex, every thread blocked in thread_control.Wait eventually leaves the
\* wait; thread_control.count is 0 whenever all threads are outside
\* ComputeEnergyChunk.
C3_WaitersReleased ==
  /\ ((rebuilds = 1 /\ mutex # 0 /\ \E t \in Threads : pc[t] = "wait")
        ~> (\A t \in Threads : pc[t] # "wait"))
  /\ [](AllJoined => count = 0)

C3_Witness ==
  /\ count = 2
  /\ rebuilds = 1
  /\ pc[0] = "kernel"
  /\ \E t, u \in Threads :
       /\ pc[t] = "wait" /\ signalled[t]
       /\ pc[u] = "wait" /\ ~signalled[u]

\* C4: when the rebuild by thread 0 throws, the error flag is set before the
\* mutex is released, the map stays stale, thread 0 ends with the exception
\* re-thrown, and no other thread of the evaluation runs the kernel or
\* attempts the rebuild.
C4_RebuildFailure ==
  failed =>
    /\ mutex # 0 => (thread_error /\ pc[0] = "thrown")
    /\ mesh_id # state_mesh \/ ~atlaskey
    /\ ~ran
    /\ \A t \in Threads : pc[t] # "kernel"
    /\ rebuilds = 1
    /\ writers = {0}

C4_Witness ==
  /\ failed
  /\ pc[0] = "thrown"
  /\ \A t \in Threads \ {0} : pc[t] = "idle"
  /\ count = 0

\* C5: while the cached mesh id and atlas state match the evaluated state,
\* no step starts a rebuild and no step changes region_id, except that
\* Init() releases it; a rebuild starts only when the map is stale.
C5_RebuildIdempotent ==
  [][ /\ rebuilds' > rebuilds => ~MapCurrent
      /\ region_id' # region_id => (~MapCurrent \/ mesh_id' = 0) ]_vars

C5_Witness ==
  /\ ~eval_stale
  /\ rebuilds = 0
  /\ MapCurrent
  /\ region_id # << >>
  /\ \A t \in Threads : pc[t] = "kernel"

\* C6: after every successful rebuild each entry of region_id is a valid row
\* and column of the coefficient matrices: 0 <= region_id[i] < coef_size.
C6_RegionIdsInRange ==
  (MapCurrent /\ map_for = << state_mesh, TRUE >>) =>
    \A i \in 1 .. Len(region_id) :
      0 <= region_id[i] /\ region_id[i] < coef_size

\* C7: each of the three coefficient matrices of a successful construction
\* is symmetric, whatever triples were listed (repeated and reversed pairs
\* included), and every pair no triple names holds the channel's default.
C7_MatricesSymmetric ==
  ctor_pc = "constructed" =>
    \A c \in Channels : \A i, j \in 0 .. (coef_size - 1) :
      /\ coef[c][i][j] = coef[c][j][i]
      /\ ({i, j} \notin named[c] => coef[c][i][j] = default_coef[c])

C7_Witness ==
  /\ ctor_pc = "constructed"
  /\ coef_size = 2
  /\ nparams[1] = 6
  /\ named[1] = {{0, 1}}
  /\ default_coef[1] = 2
  /\ coef[1][0][1] = 1
  /\ coef[1][1][0] = 1
  /\ coef[1][0][0] = 2

\* C8: a region count below 1 or above the maximum, a list whose length is
\* not a multiple of 3, an unknown region name, an unparsable coefficient,
\* or A and lex given together make the construction fail, in whichever
\* channel it happens; the step that rejects a triple writes no matrix entry.
C8_BadConfigFails ==
  /\ [](bad_config => ctor_pc \in {"catch", "failed"})
  /\ [][(ctor_pc = "fill" /\ ctor_pc' = "catch") => coef' = coef]_vars

C8_Witness ==
  /\ bad_config
  /\ ctor_pc = "catch"
  /\ chan = 3
  /\ named[3] # {}
  /\ ip = 3

\* C9: when the construction fails, every coefficient matrix allocated so
\* far has been released: nothing stays on the heap.
C9_AllReleasedOnFailure == ctor_pc = "failed" => heap = {}

\* C10: a cell whose inverse Ms is 0 gets exactly zero energy, field and
\* torque in the buffers the kernel writes and nothing added to the
\* accumulating buffers, and no processed cell has a term from a zero-Ms
\* neighbour in its sum, in either direction of any axis, across a periodic
\* wrap included; a cell all of whose neighbours have zero Ms gets zeros.
C10_ZeroMsCells ==
  \A k \in DOMAIN contrib :
    (node_start <= k /\ k < cell_i) =>
      /\ Ms_inverse[k] = 0 =>
           /\ ocedt.direct =>
                (energy[k] = 0 /\ H[k] = << 0, 0, 0 >> /\ mxH[k] = << 0, 0, 0 >>)
           /\ energy_accum[k] = 0
           /\ H_accum[k] = << 0, 0, 0 >>
           /\ mxH_accum[k] = << 0, 0, 0 >>
           /\ contrib[k] = {}
      /\ \A dj \in contrib[k] : Ms_inverse[dj[2]] # 0
      /\ (contrib[k] = {} /\ ocedt.direct) =>
           (energy[k] = 0 /\ H[k] = << 0, 0, 0 >> /\ mxH[k] = << 0, 0, 0 >>)

C10_Witness ==
  /\ k_pc = "done"
  /\ mesh.xdim = 3
  /\ mesh.xperiodic
  /\ node_start = 0
  /\ node_stop = 3
  /\ lattice_type = "LATTICE1"
  /\ ocedt.direct
  /\ Ms_inverse = [k \in 0 .. 2 |-> IF k = 0 THEN 0 ELSE 1]
  /\ region_id = << 0, 0, 0 >>
  /\ spin[1] # spin[2]
  /\ energy[0] = 0
  /\ H[0] = << 0, 0, 0 >>
  /\ mxH[0] = << 0, 0, 0 >>
  /\ contrib[1] = {<< "x+", 2 >>}
  /\ contrib[2] = {<< "x-", 1 >>}
  /\ H[1] # << 0, 0, 0 >>

\* C11: on each axis a processed cell looks up its interior neighbour, or,
\* at the boundary, the cell at the opposite end of the same grid line when
\* the axis is periodic and no cell when it is not; every index looked up is
\* a cell of the mesh; a wrapped lookup reads the coefficient of the two
\* cells' regions and the weight of its axis like an interior one; every
\* term added to a sum comes from such a lookup.
C11_PeriodicNeighbours ==
  \A k \in DOMAIN lookups :
    (node_start <= k /\ k < cell_i /\ Ms_inverse[k] # 0) =>
      LET xd == mesh.xdim
          xyd == mesh.xdim * mesh.ydim
          n == mesh.xdim * mesh.ydim * mesh.zdim
          x == k % xd
          y == (k \div xd) % mesh.ydim
          z == k \div xyd
          Expected(d) ==
            CASE d = "x-" -> IF x > 0 THEN {k - 1}
                             ELSE IF mesh.xperiodic THEN {k + (xd - 1)} ELSE {}
              [] d = "x+" -> IF x < xd - 1 THEN {k + 1}
                             ELSE IF mesh.xperiodic THEN {k - (xd - 1)} ELSE {}
              [] d = "y-" -> IF y > 0 THEN {k - xd}
                             ELSE IF mesh.yperiodic
                               THEN {k + xd * (mesh.ydim - 1)} ELSE {}
              [] d = "y+" -> IF y < mesh.ydim - 1 THEN {k + xd}
                             ELSE IF mesh.yperiodic
                               THEN {k - xd * (mesh.ydim - 1)} ELSE {}
              [] d = "z-" -> IF z > 0 THEN {k - xyd}
                             ELSE IF mesh.zperiodic
                               THEN {k + xyd * (mesh.zdim - 1)} ELSE {}
              [] OTHER    -> IF z < mesh.zdim - 1 THEN {k + xyd}
                             ELSE IF mesh.zperiodic
                               THEN {k - xyd * (mesh.zdim - 1)} ELSE {}
          Edge(d) ==
            CASE d \in {"x-", "x+"} -> EdgeLength.x
              [] d \in {"y-", "y+"} -> EdgeLength.y
              [] OTHER              -> EdgeLength.z
      IN  /\ \A d \in {"x-", "x+", "y-", "y+", "z-", "z+"} :
               {e.j : e \in {f \in lookups[k] : f.dir = d}} = Expected(d)
          /\ \A e \in lookups[k] :
               /\ 0 <= e.j /\ e.j < n
               /\ e.ApairA = (IF lattice_type = "LATTICE1"
                                THEN coef[1] ELSE coef[2])
                               [region_id[k + 1]][region_id[e.j + 1]]
               /\ e.wgt = -(WgtUnit \div (Edge(e.dir) * Edge(e.dir)))
          /\ \A t \in contrib[k] :
               \E e \in lookups[k] : e.dir = t[1] /\ e.j = t[2]

C11_Witness ==
  /\ k_pc = "done"
  /\ mesh.xdim = 3
  /\ mesh.xperiodic
  /\ node_start = 0
  /\ node_stop = 3
  /\ lattice_type = "LATTICE1"
  /\ Ms_inverse = [k \in 0 .. 2 |-> 1]
  /\ region_id = << 0, 0, 0 >>
  /\ \E e \in lookups[0] : e.dir = "x-" /\ e.j = 2 /\ e.ApairA = 1
  /\ \E e \in lookups[2] : e.dir = "x+" /\ e.j = 0 /\ e.ApairA = 1
  /\ \E e \in lookups[1] : e.dir = "x+" /\ e.j = 2 /\ e.ApairA = 1
  /\ << "x-", 2 >> \in contrib[0]
  /\ << "x+", 0 >> \in contrib[2]

\* C12 (as stated): on the chain the field stored for the middle cell points
\* along +x with magnitude 2*A/(mu0*Ms*dx^2); fields are counted in units of
\* 1/(MU0*WgtUnit).
C12_FieldAlongX ==
  (ocedt.direct /\ node_start <= 1 /\ 1 < cell_i) =>
    H[1] = << (2 * coef[1][0][0] * Ms_inverse[1] * WgtUnit)
                \div (EdgeLength.x * EdgeLength.x), 0, 0 >>

\* C12 (amended): on the chain the field stored for the middle cell is
\* (4*A/(mu0*Ms*dx^2)) * (-x + z): it points from the cell's own spin +x
\* toward the spin +z of its two neighbours, with equal and opposite x and z
\* components of size 4*A/(mu0*Ms*dx^2) and no y component.
C12_FieldTowardNeighbours ==
  (ocedt.direct /\ node_start <= 1 /\ 1 < cell_i) =>
    LET h == (4 * coef[1][0][0] * Ms_inverse[1] * WgtUnit)
               \div (EdgeLength.x * EdgeLength.x)
    IN  H[1] = << -h, 0, h >>

C12_Witness ==
  /\ k_pc = "done"
  /\ ocedt.direct
  /\ node_start = 0
  /\ node_stop = 3
  /\ coef[1][0][0] = 2
  /\ Ms_inverse[1] = 2
  /\ spin = [k \in 0 .. 2 |-> IF k = 1 THEN << 1, 0, 0 >> ELSE << 0, 0, 1 >>]
  /\ H[1] = << -576, 0, 576 >>
  /\ contrib[1] = {<< "x-", 0 >>, << "x+", 2 >>}

\* C13: when ComputeEnergyChunkFinalize runs for a state that already holds
\* the max spin angle, the stored value is never overwritten; with an equal
\* recomputed angle the state's derived data stay as they are and no error is
\* raised, with a different angle the error is raised.
C13_MaxAngleWriteOnce ==
  [][(e_pc = "chunks" /\ e_pc' = "idle" /\ derived[e_state].msa # Unset) =>
       /\ derived'[e_state].msa = derived[e_state].msa
       /\ (MaxAng(TotalMaxdot) = derived[e_state].msa) =>
            (derived' = derived /\ ~e_error')
       /\ (MaxAng(TotalMaxdot) # derived[e_state].msa) =>
            (derived' = derived /\ e_error')]_vars

C13_Witness ==
  /\ e_pc = "idle"
  /\ e_error
  /\ e_state = 1
  /\ derived[1].msa = 3
  /\ MaxAng(TotalMaxdot) = 6

\* C19: Update_m_e_chi_l runs exactly once in the first call of
\* ComputeEnergyChunkInitialize, exactly once in a later call whose state's
\* stage number differs from that of the state of the call before it, and
\* not at all in any other call.
C19_UpdateOncePerStage ==
  [][(e_pc = "idle" /\ e_pc' = "chunks") =>
       update_runs' = (IF e_state = 0
                          \/ stage_number[e_state] # stage_number[e_state']
                       THEN 1 ELSE 0)]_vars

C19_Witness ==
  /\ e_pc = "chunks"
  /\ e_state = 2
  /\ stage_number[1] = 0
  /\ stage_number[2] = 1
  /\ last_stage_number = 1
  /\ update_runs = 1
  /\ derived[1].msa # Unset
  /\ derived[2].msa # Unset

\* C14: a Step attempt that is forced is never rejected, whatever the error
\* estimate and the energy check say; and when min_timestep > 0 every
\* rejected attempt is followed, after finitely many attempts, by an
\* accepted one.
C14_ForcedAccepted ==
  /\ [](att.forcestep => att.result # "reject")
  /\ (ev_cfg.thermal /\ att.result = "reject") ~> (att.result = "accept")

C14_Witness ==
  /\ ev_cfg.thermal
  /\ att.result = "accept"
  /\ att.forcestep
  /\ att.exceeded
  /\ att.energy_fail
  /\ cstate.iteration_count = 1

\* C15: after every rejected Step, next_timestep is at least half the step
\* size tried and strictly smaller than it.
C15_RejectShrinks ==
  (att.result = "reject") =>
    /\ ~Less(ev.next_timestep, Times(<< 1, 2 >>, att.stepsize))
    /\ Less(ev.next_timestep, att.stepsize)

C15_Witness ==
  /\ att.result = "reject"
  /\ att.stepsize = << 4, 1 >>
  /\ ev.next_timestep = << 3, 1 >>

\* C16 (as stated): for every step_headroom > 0 a Step that reaches the
\* decision is rejected exactly when it is not forced and either the error
\* exceeds working_allowed_error or the energy check fails.
C16_RejectIffExceeds ==
  (att.result \in {"accept", "reject"}) =>
    ((att.result = "reject")
       <=> (~att.forcestep /\ (att.exceeded \/ att.energy_fail)))

\* C17: Step ends with an error, and the driver keeps its current state,
\* when the work state has another mesh, when its previous_state_id is not
\* the current state's id, when a cached value of the current state is
\* missing at the test of lines 536-549, and when the step would be accepted
\* but the new state already holds one of the derived values.
C17_FatalErrors ==
  /\ [](/\ att.fill = "mesh" => att.result = "mesh"
        /\ att.fill = "previous" => att.result = "continuity"
        /\ (att.fill \in {"ok", "preset"} /\ att.missing # {})
             => att.result \in {"cache", "delta_E"}
        /\ att.fill = "preset" => att.result # "accept")
  /\ [][att'.result \in {"mesh", "continuity", "cache", "delta_E", "preset"}
          => (cstate'.id = cstate.id
              /\ cstate'.iteration_count = cstate.iteration_count)]_vars

C17_Witness ==
  /\ att.result = "cache"
  /\ att.fill = "ok"
  /\ att.missing = {"Delta E"}
  /\ ev.energy_state_id = cstate.id
  /\ cstate.iteration_count = 0

\* C20 (as stated): the thermal fields are generated at most once for each
\* iteration number; a later Calculate_dm_dt call for the same iteration
\* reuses them.
C20_DrawnOncePerIteration ==
  \A k \in DOMAIN draws : draws[k] <= 1

\* C18: problem_status changes only along these edges: in INSIDE_STAGE a
\* rejected step keeps the status and the current state, an accepted step
\* leads to INSIDE_STAGE, STAGE_END or DONE; in STAGE_END the pass creates
\* the state of the next stage and, through the STAGE_START processing of
\* the same pass, leads to INSIDE_STAGE, STAGE_END or DONE; STAGE_START leads
\* to the same three; in DONE Run makes no pass and leaves the status and the
\* current state as they are; a pass with status INVALID ends Run with an
\* error.
C18_StatusEdges ==
  [][/\ problem_status' # problem_status =>
          /\ problem_status \in {"INSIDE_STAGE", "STAGE_END", "STAGE_START"}
          /\ problem_status' \in {"INSIDE_STAGE", "STAGE_END", "DONE"}
          /\ d_last' \in {"accepted", "new_stage", "stage_start"}
     /\ d_last' = "rejected" =>
          (problem_status' = "INSIDE_STAGE" /\ dstate' = dstate)
     /\ (problem_status = "INSIDE_STAGE" /\ dstate' # dstate) =>
          (d_last' = "accepted" /\ problem_status' # "STAGE_START")
     /\ (problem_status = "STAGE_END" /\ d_pc = "loop"
           /\ step_events = 0) =>
          /\ d_last' = "new_stage"
          /\ dstate'.stage_iteration_count = 0
          /\ dstate'.stage_number >= dstate.stage_number
          /\ problem_status' \in {"INSIDE_STAGE", "STAGE_END", "DONE"}
     /\ problem_status = "DONE" =>
          /\ problem_status' = "DONE"
          /\ dstate' = dstate
          /\ d_last' \in {"none", d_last}
          /\ ~d_error'
     /\ (problem_status = "INVALID" /\ d_pc = "loop"
           /\ step_events = 0) =>
          (d_error' /\ d_last' = "invalid" /\ problem_status' = "INVALID")
    ]_vars

C18_Witness ==
  /\ problem_status = "DONE"
  /\ d_last = "new_stage"
  /\ d_pc = "idle"
  /\ ~d_error
  /\ dstate.stage_number = 1
  /\ dstate.stage_iteration_count = 0
  /\ dstate.run_done = "DONE"
  /\ d_cfg.number_of_stages = 1

\* C28 (as stated): while no error flag is set, a ComputeEnergyChunk call
\* returns normally only after it has run the kernel: a call leaves from
\* the lock or from behind the wait, without the kernel, only when the
\* error flag is set.
C28_NoSilentSkip ==
  [][\A t \in Threads :
       (pc[t] \in {"lock", "postwait"} /\ pc'[t] \in AfterReturn)
         => thread_error]_vars

\* C30 (as stated): for a module constructed from A or from lex
\* coefficients, a ComputeEnergyChunk call with a valid region map that has
\* returned has processed every cell of its range, has written energy, field
\* and torque of each of them where direct output is asked for, and has
\* added its energy to the total.
C30_EveryTypeComputes ==
  (k_pc \in {"done", "returned"}) =>
    /\ cell_i = node_stop
    /\ \A k \in node_start .. (node_stop - 1) :
         /\ lookups[k] # {}
         /\ ocedt.direct =>
              /\ energy[k] # Garbage
              /\ H[k] # << Garbage, Garbage, Garbage >>
              /\ mxH[k] # << Garbage, Garbage, Garbage >>
    /\ energy_total_accum = energy_sum * Volume(mesh)
    /\ energy_total_accum # 0

\* C23: when every cell holds the same spin, every processed cell gets
\* energy density 0, field 0 and torque 0, in the buffers written directly
\* and in the accumulating ones, and the energy sum of the chunk is 0, for
\* every region layout, coefficient matrix and periodicity of the model.
C23_UniformSpinZero ==
  (\A a, b \in DOMAIN spin : spin[a] = spin[b]) =>
    /\ \A k \in DOMAIN spin :
         (node_start <= k /\ k < cell_i) =>
           /\ ocedt.direct =>
                (energy[k] = 0 /\ H[k] = Zero3 /\ mxH[k] = Zero3)
           /\ energy_accum[k] = 0
           /\ H_accum[k] = Zero3
           /\ mxH_accum[k] = Zero3
    /\ energy_sum = 0
    /\ energy_total_accum = 0

C23_Witness ==
  /\ k_pc = "done"
  /\ \A a \in DOMAIN spin : spin[a] = << 0, 0, 1 >>
  /\ mesh.xdim = 3
  /\ mesh.xperiodic
  /\ node_start = 0
  /\ node_stop = 3
  /\ lattice_type = "LATTICE1"
  /\ ocedt.direct
  /\ Ms_inverse = [k \in 0 .. 2 |-> 1]
  /\ region_id = << 0, 1, 0 >>
  /\ contrib[1] = {<< "x-", 0 >>, << "x+", 2 >>}
  /\ energy = [k \in 0 .. 2 |-> 0]
  /\ H[1] = Zero3
  /\ mxH[1] = Zero3

\* C24: in every call of CalcEnergyA, whatever range 0 <= node_start <=
\* node_stop <= size it is given (empty, or starting and ending inside a
\* row), the cell index runs from node_start to node_stop in steps of one, so
\* each index of the range is processed exactly once; when a cell is
\* processed the running x, y, z are the grid coordinates of its index; the
\* energy, field and torque buffers change only at the index being
\* processed, which lies in the range; and maxdot changes only in the slot
\* of the calling thread.
C24_RangeExactlyOnce ==
  [][LET xd == mesh.xdim
         yd == mesh.ydim
         changed(k) == \/ energy'[k] # energy[k]
                       \/ H'[k] # H[k]
                       \/ mxH'[k] # mxH[k]
                       \/ energy_accum'[k] # energy_accum[k]
                       \/ H_accum'[k] # H_accum[k]
                       \/ mxH_accum'[k] # mxH_accum[k]
     IN  /\ \A k \in DOMAIN energy :
              changed(k) => /\ k = cell_i
                            /\ cell_i' = cell_i + 1
                            /\ node_start <= k
                            /\ k < node_stop
         /\ cell_i' # cell_i =>
              \/ k_pc = "start" /\ cell_i' = node_start
              \/ /\ cell_i' = cell_i + 1
                 /\ node_start <= cell_i
                 /\ cell_i < node_stop
                 /\ cell_x = cell_i % xd
                 /\ cell_y = (cell_i \div xd) % yd
                 /\ cell_z = cell_i \div (xd * yd)
         /\ (k_pc # "done" /\ k_pc' = "done") => cell_i = node_stop
         /\ (k_pc = "start" /\ k_pc' # "start") => cell_i' = node_start
         /\ \A t \in DOMAIN maxdot :
              maxdot'[t] # maxdot[t] =>
                k_pc = "initialize" \/ (k_pc = "row" /\ t = threadnumber)]_vars

\* a call of thread 2 on the range [1, 3) of a mesh of two rows of two cells
\* has returned: cells 1 and 2 are written, cell 3 is not, and only the slot
\* of thread 2 holds a spin difference
C24_Witness ==
  /\ k_pc = "done"
  /\ mesh.xdim = 2
  /\ mesh.ydim = 2
  /\ node_start = 1
  /\ node_stop = 3
  /\ threadnumber = 2
  /\ ocedt.direct
  /\ cell_i = 3
  /\ energy[1] # Garbage
  /\ energy[2] # Garbage
  /\ energy[3] = Garbage
  /\ maxdot[2] > 0
  /\ maxdot[0] = 0
  /\ maxdot[1] = 0

\* C25: when the calls of one evaluation have covered the whole mesh, the
\* largest maxdot over the threads is the largest squared spin difference
\* over all pairs of neighbouring cells (periodic neighbours included) that
\* both have nonzero Ms and a nonzero coefficient between their regions,
\* and 0 when there is no such pair: what maxdot held before the evaluation
\* does not count.
C25_MaxdotIsPairMax ==
  (k_pc = "done" /\ node_stop = Size(mesh)) =>
    LET xd == mesh.xdim
        yd == mesh.ydim
        zd == mesh.zdim
        cx(k) == k % xd
        cy(k) == (k \div xd) % yd
        cz(k) == k \div (xd * yd)
        near(a, b, dim, periodic) ==
          \/ a - b = 1
          \/ b - a = 1
          \/ periodic /\ (a - b = dim - 1 \/ b - a = dim - 1)
        adjacent(a, b) ==
          \/ cy(a) = cy(b) /\ cz(a) = cz(b)
               /\ near(cx(a), cx(b), xd, mesh.xperiodic)
          \/ cx(a) = cx(b) /\ cz(a) = cz(b)
               /\ near(cy(a), cy(b), yd, mesh.yperiodic)
          \/ cx(a) = cx(b) /\ cy(a) = cy(b)
               /\ near(cz(a), cz(b), zd, mesh.zperiodic)
        A == IF lattice_type = "LATTICE1" THEN coef[1] ELSE coef[2]
        dots == {0} \cup
                {MagSq(VSub(spin[p[2]], spin[p[1]])) :
                   p \in {q \in (DOMAIN spin) \X (DOMAIN spin) :
                            /\ adjacent(q[1], q[2])
                            /\ Ms_inverse[q[1]] # 0
                            /\ Ms_inverse[q[2]] # 0
                            /\ A[region_id[q[1] + 1]][region_id[q[2] + 1]] # 0}}
        top == CHOOSE d \in dots : \A e \in dots : e <= d
    IN  /\ \A t \in DOMAIN maxdot : maxdot[t] <= top
        /\ \E t \in DOMAIN maxdot : maxdot[t] = top

\* the whole of a periodic mesh of two rows of two cells is done; one thread
\* found a squared difference of 2, another one of 4, a third nothing
C25_Witness ==
  /\ k_pc = "done"
  /\ node_stop = Size(mesh)
  /\ mesh.xdim = 2
  /\ mesh.ydim = 2
  /\ mesh.xperiodic
  /\ \E t1, t2, t3 \in DOMAIN maxdot :
       maxdot[t1] = 2 /\ maxdot[t2] = 4 /\ maxdot[t3] = 0

\* C29 (as stated): every ComputeEnergyChunkInitialize call in which
\* Update_m_e_chi_l runs has the per-cell parameter arrays filled and sized
\* when it runs, also when Init() released them since the evaluation before.
C29_ArraysSizedAtUpdate ==
  [][(e_pc = "idle" /\ e_pc' = "chunks" /\ update_runs' > 0)
       => params_sized']_vars

\* C27: a Step that rejects leaves the current state the current state,
\* with its iteration counts as they were, and leaves energy_state_id and
\* the id of the dm_dt caches at the current state's id with all five
\* derived values present, so the cache test of the retried Step passes; if
\* the record was already valid when Step was called, the state and those
\* ids are exactly what they were.
C27_RejectKeepsRecord ==
  [][(current_attempt_count' = current_attempt_count + 1) =>
       /\ att'.result = "reject"
       /\ cstate'.id = cstate.id
       /\ cstate'.iteration_count = cstate.iteration_count
       /\ cstate'.stage_iteration_count = cstate.stage_iteration_count
       /\ cstate'.previous_state_id = cstate.previous_state_id
       /\ ev'.energy_state_id = cstate.id
       /\ ev'.dm_dt_id = cstate.id
       /\ cstate'.data = AllKeys
       /\ (ev.energy_state_id = cstate.id) =>
            /\ cstate' = cstate
            /\ ev'.energy_state_id = ev.energy_state_id
            /\ ev'.dm_dt_id = ev.dm_dt_id]_vars

\* after one good step, Step has rejected twice in a row: the second call
\* found the record the first rejection left valid for the current state
C27_Witness ==
  /\ att.result = "reject"
  /\ current_attempt_count = 2
  /\ cstate.iteration_count = 1
  /\ ev.energy_state_id = cstate.id
  /\ ev.dm_dt_id = cstate.id
  /\ ev.mxH_id = cstate.id + 1
  /\ att.missing = {}

\* C21 (as stated): when Calculate_dm_dt has returned, dm_dt_t and dm_dt_l
\* are zero at every cell of the fixed-spin list, for every field, thermal
\* field, damping, Ms and option of the model.
C21_FixedSpinsZero ==
  dout.called =>
    \A i \in dout.fixed \cap DOMAIN dout.dm_dt_t :
      dout.dm_dt_t[i] = << 0, 0, 0 >> /\ dout.dm_dt_l[i] = << 0, 0, 0 >>

\* C26 (as stated): a call of Calculate_dm_dt that finds the mesh changed or
\* the thermal-field array not sized to the mesh computes the thermal field
\* in that call.
C26_ThermalFieldForced ==
  (dout.called /\ dout.need) => dout.drew

\* C22 (as stated): when the solver has returned, then for A = kT/J <= 0 or
\* A >= 1/3 it made no Newton pass and m_e is exactly 0, and for
\* 0 < A < 1/3 m_e is A*x for an x with |L(x) - A*x| <= tolerance, where
\* L(x) = coth(x) - 1/x (coth(x) = 1 for the x of the model).
C22_SolverPostcondition ==
  sol.pc = "done" =>
    IF sol.T * sol.J <= 0 \/ (sol.J > 0 /\ 3 * sol.T >= sol.J)
    THEN sol.m_e = << 0, 1 >> /\ sol.iterations = 0
    ELSE LET n == sol.x[1]
             d == sol.x[2]
             \* (1 - d/n - T*n/(J*d)) as a fraction of n*J*d
             num == n * sol.J * d - d * d * sol.J - sol.T * n * n
             den == n * sol.J * d
         IN  /\ sol.m_e[1] * sol.J * d = sol.T * n * sol.m_e[2]
             /\ (IF num < 0 THEN -num ELSE num) * sol.tol_in[2]
                  <= (IF sol.tol_in[1] < 0 THEN -sol.tol_in[1]
                      ELSE sol.tol_in[1]) * den

====
